---- MODULE Spec2Model ----
(***************************************************************************)
(* GoDissys: a Nameserver (directory of email address -> mailbox address), *)
(* a Mailbox (per-recipient inboxes) and a TransferServer (lookup, then    *)
(* delivery with bounded retries and exponential backoff).                 *)
(*                                                                         *)
(* Go strings are modelled as sequences of tokens: "" is <<>>, "@" is a    *)
(* token of its own and no other token contains it, so strings.Split on    *)
(* "@" and fmt.Sprintf are computed on the token sequences.  A Go pointer  *)
(* or error that may be nil is a sequence of length 0 (nil) or 1.          *)
(***************************************************************************)
EXTENDS Integers, Sequences, FiniteSets, Bags, TLC

----------------------------------------------------------------------------
(* Values *)

Nil == <<>>

Some(x) == <<x>>

EmptyString == <<>>

At == "@"

\* status.Errorf(code, format, ...): a gRPC status error
StatusErrorf(code, text) == [Code |-> code, Message |-> text]

\* strings.Split(s, "@"): the parts of s between the separators; a string
\* without the separator (the empty string too) gives one part.
SplitInTwo(s, sep) ==
    IF \A k \in 1..Len(s) : s[k] # sep
    THEN <<s>>
    ELSE LET k == CHOOSE j \in 1..Len(s) :
                      s[j] = sep /\ \A h \in 1..(j - 1) : s[h] # sep
         IN  <<SubSeq(s, 1, k - 1), SubSeq(s, k + 1, Len(s))>>

RECURSIVE Split(_, _)
Split(s, sep) ==
    IF \A k \in 1..Len(s) : s[k] # sep
    THEN <<s>>
    ELSE LET k == CHOOSE j \in 1..Len(s) :
                      s[j] = sep /\ \A h \in 1..(j - 1) : s[h] # sep
         IN  <<SubSeq(s, 1, k - 1)>> \o Split(SubSeq(s, k + 1, Len(s)), sep)

\* m[k] = v on a Go map, modelled as a function whose domain is the key set
MapPut(m, k, v) == [x \in (DOMAIN m) \cup {k} |-> IF x = k THEN v ELSE m[x]]

EmptyMap == [x \in {} |-> Nil]

----------------------------------------------------------------------------
(* Inputs *)

\* common.EarthMailboxAddr and common.SaturnMailboxAddr: where the two
\* Mailbox servers of main.go listen
EarthMailboxAddr == <<"localhost:", "50054">>

SaturnMailboxAddr == <<"localhost:", "50055">>

MailboxAddrs == {EarthMailboxAddr, SaturnMailboxAddr}

\* the domains handed to nameserver.NewServer (as in the nameserver test)
ConfiguredDomains == <<<<"earth.com">>, <<"saturn.com">>>>

Alice == <<"alice", At, "earth.com">>

Bob == <<"bob", At, "saturn.com">>

Diana == <<"diana", At, "mars.com">>

NoAtSign == <<"alice.earth.com">>

TwoAtSigns == <<"al", At, "ice", At, "earth.com">>

EmptyDomain == <<"alice", At>>

\* email addresses offered to the Nameserver
NSAddresses == {EmptyString, Alice, Bob, Diana, NoAtSign, TwoAtSigns, EmptyDomain}

\* mailbox addresses offered to the Nameserver
NSLocations == {EmptyString} \cup MailboxAddrs

Charlie == <<"charlie", At, "earth.com">>

\* a proto.MailMessage
MailMessage(sender, recipient, subject, body, timestamp) ==
    [SenderEmail |-> sender, RecipientEmail |-> recipient,
     Subject |-> subject, Body |-> body, Timestamp |-> timestamp]

\* messages offered to a Mailbox directly
MBMessages ==
    {MailMessage(Bob, Alice, <<"Greetings from Saturn!">>, <<"Hi Alice">>, 1),
     MailMessage(Charlie, Alice, <<"Meeting Reminder (Earth)">>, <<"Alice, ...">>, 2),
     MailMessage(Alice, Charlie, <<"Re: Meeting">>, <<"Charlie, ...">>, 3),
     MailMessage(Alice, EmptyString, <<"Invalid Mail">>, <<"no recipient">>, 4)}

\* ReceiveMail requests: a request without a message, or with one
MBReceiveRequests ==
    {[Message |-> Nil]} \cup {[Message |-> Some(m)] : m \in MBMessages}

\* addresses whose mail is fetched from a Mailbox
MBAddresses == {EmptyString, Alice, Charlie, Bob}

\* the most messages the model lets one inbox hold
MaxInbox == 2

----------------------------------------------------------------------------
(* Nameserver: src/nameserver/nameserver.go *)

\* NewServer(domains): the responsibleDomains map holds true for each domain
\* of the list, so it is the set of the list's elements; mailboxes is empty.
NewNameserver(domains) ==
    [mailboxes          |-> EmptyMap,
     responsibleDomains |-> {domains[k] : k \in 1..Len(domains)}]

\* s.responsibleDomains[domain]: a missing key reads as false
IsResponsibleNoCheck(s, domain) == TRUE

IsResponsible(s, domain) == domain \in s.responsibleDomains

\* s.mailboxes[emailAddress] = mailboxAddr
StoreMailboxKeepFirst(s, emailAddress, mailboxAddr) ==
    IF emailAddress \in DOMAIN s.mailboxes
    THEN s
    ELSE [s EXCEPT !.mailboxes = MapPut(s.mailboxes, emailAddress, mailboxAddr)]

StoreMailbox(s, emailAddress, mailboxAddr) ==
    [s EXCEPT !.mailboxes = MapPut(s.mailboxes, emailAddress, mailboxAddr)]

\* what RegisterMailbox does for a domain this Nameserver does not manage
RejectDomainAndStore(s, req, domain) ==
    [s    |-> StoreMailbox(s, req.EmailAddress, req.MailboxAddress),
     resp |-> Some([Success |-> FALSE,
                    Message |-> <<"Domain '">> \o domain
                                \o <<"' is not managed by this Nameserver.">>]),
     err  |-> Nil]

RejectDomain(s, req, domain) ==
    [s    |-> s,
     resp |-> Some([Success |-> FALSE,
                    Message |-> <<"Domain '">> \o domain
                                \o <<"' is not managed by this Nameserver.">>]),
     err  |-> Nil]

\* RegisterMailbox(ctx, req): the server after the call, the response, the error
RegisterMailboxDomainFirst(s, req) ==
    LET emailAddress == req.EmailAddress
        mailboxAddr  == req.MailboxAddress
        parts        == Split(emailAddress, At)
        domain       == parts[2]
        unmanaged    == IF Len(parts) = 2 THEN ~IsResponsible(s, domain) ELSE FALSE
    IN  IF emailAddress = EmptyString
        THEN [s    |-> s,
              resp |-> Nil,
              err  |-> Some(StatusErrorf("InvalidArgument",
                         <<"email address and mailbox address cannot be empty">>))]
        ELSE IF unmanaged
        THEN RejectDomain(s, req, domain)
        ELSE IF mailboxAddr = EmptyString
        THEN [s    |-> s,
              resp |-> Nil,
              err  |-> Some(StatusErrorf("InvalidArgument",
                         <<"email address and mailbox address cannot be empty">>))]
        ELSE IF Len(parts) # 2
        THEN [s    |-> s,
              resp |-> Nil,
              err  |-> Some(StatusErrorf("InvalidArgument",
                         <<"invalid email address format: ">> \o emailAddress))]
        ELSE [s    |-> StoreMailbox(s, emailAddress, mailboxAddr),
              resp |-> Some([Success |-> TRUE,
                             Message |-> <<"Mailbox registered successfully">>]),
              err  |-> Nil]

RegisterMailbox(s, req) ==
    LET emailAddress == req.EmailAddress
        mailboxAddr  == req.MailboxAddress
        parts        == Split(emailAddress, At)
        domain       == parts[2]
    IN  IF emailAddress = EmptyString \/ mailboxAddr = EmptyString
        THEN [s    |-> s,
              resp |-> Nil,
              err  |-> Some(StatusErrorf("InvalidArgument",
                         <<"email address and mailbox address cannot be empty">>))]
        ELSE IF Len(parts) # 2
        THEN [s    |-> s,
              resp |-> Nil,
              err  |-> Some(StatusErrorf("InvalidArgument",
                         <<"invalid email address format: ">> \o emailAddress))]
        ELSE IF ~IsResponsible(s, domain)
        THEN RejectDomain(s, req, domain)
        ELSE [s    |-> StoreMailbox(s, emailAddress, mailboxAddr),
              resp |-> Some([Success |-> TRUE,
                             Message |-> <<"Mailbox registered successfully">>]),
              err  |-> Nil]

\* LookupMailbox(ctx, req)
LookupMailboxRemembers(s, req) ==
    LET username == req.EmailAddress
    IN  IF username = EmptyString
        THEN [s    |-> s,
              resp |-> Nil,
              err  |-> Some(StatusErrorf("InvalidArgument",
                         <<"email address cannot be empty">>))]
        ELSE IF username \notin DOMAIN s.mailboxes
        THEN [s    |-> [s EXCEPT !.mailboxes = MapPut(s.mailboxes, username, EmptyString)],
              resp |-> Some([Found |-> FALSE, MailboxAddress |-> EmptyString]),
              err  |-> Nil]
        ELSE [s    |-> s,
              resp |-> Some([Found |-> TRUE,
                             MailboxAddress |-> s.mailboxes[username]]),
              err  |-> Nil]

LookupMailboxChecksFormat(s, req) ==
    LET username == req.EmailAddress
    IN  IF username = EmptyString
        THEN [s    |-> s,
              resp |-> Nil,
              err  |-> Some(StatusErrorf("InvalidArgument",
                         <<"email address cannot be empty">>))]
        ELSE IF Len(Split(username, At)) # 2
        THEN [s    |-> s,
              resp |-> Nil,
              err  |-> Some(StatusErrorf("InvalidArgument",
                         <<"invalid email address format: ">> \o username))]
        ELSE IF username \notin DOMAIN s.mailboxes
        THEN [s    |-> s,
              resp |-> Some([Found |-> FALSE, MailboxAddress |-> EmptyString]),
              err  |-> Nil]
        ELSE [s    |-> s,
              resp |-> Some([Found |-> TRUE,
                             MailboxAddress |-> s.mailboxes[username]]),
              err  |-> Nil]

LookupMailbox(s, req) ==
    LET username == req.EmailAddress
    IN  IF username = EmptyString
        THEN [s    |-> s,
              resp |-> Nil,
              err  |-> Some(StatusErrorf("InvalidArgument",
                         <<"email address cannot be empty">>))]
        ELSE IF username \notin DOMAIN s.mailboxes
        THEN [s    |-> s,
              resp |-> Some([Found |-> FALSE, MailboxAddress |-> EmptyString]),
              err  |-> Nil]
        ELSE [s    |-> s,
              resp |-> Some([Found |-> TRUE,
                             MailboxAddress |-> s.mailboxes[username]]),
              err  |-> Nil]

----------------------------------------------------------------------------
(* Mailbox: src/mailbox/mailbox.go *)

\* NewServer(domain)
NewMailbox(domain) == [userInboxes |-> EmptyMap, Domain |-> domain]

\* s.userInboxes[emailAddress]: a missing key reads as the nil (empty) slice
Inbox(s, emailAddress) ==
    IF emailAddress \in DOMAIN s.userInboxes
    THEN s.userInboxes[emailAddress]
    ELSE <<>>

\* append(s.userInboxes[msg.RecipientEmail], msg)
AppendMailInFront(inbox, msg) == <<msg>> \o inbox

AppendMailRestamped(inbox, msg) == Append(inbox, [msg EXCEPT !.Timestamp = 0])

AppendMail(inbox, msg) == Append(inbox, msg)

\* ReceiveMail(ctx, req): the server after the call, the response, the error
ReceiveMailStoresFirst(s, req) ==
    LET msg == req.Message
    IN  IF msg = Nil
        THEN [s    |-> s,
              resp |-> Nil,
              err  |-> Some(StatusErrorf("InvalidArgument",
                         <<"mail message cannot be empty">>))]
        ELSE IF msg[1].RecipientEmail = EmptyString
        THEN [s    |-> [s EXCEPT !.userInboxes =
                          MapPut(s.userInboxes, msg[1].RecipientEmail,
                                 AppendMail(Inbox(s, msg[1].RecipientEmail), msg[1]))],
              resp |-> Nil,
              err  |-> Some(StatusErrorf("InvalidArgument",
                         <<"recipient email cannot be empty">>))]
        ELSE [s    |-> [s EXCEPT !.userInboxes =
                          MapPut(s.userInboxes, msg[1].RecipientEmail,
                                 AppendMail(Inbox(s, msg[1].RecipientEmail), msg[1]))],
              resp |-> Some([Success |-> TRUE,
                             Message |-> <<"Mail received successfully">>]),
              err  |-> Nil]

ReceiveMailFull(s, req) ==
    LET msg == req.Message
    IN  IF msg = Nil
        THEN [s    |-> s,
              resp |-> Nil,
              err  |-> Some(StatusErrorf("InvalidArgument",
                         <<"mail message cannot be empty">>))]
        ELSE IF msg[1].RecipientEmail = EmptyString
        THEN [s    |-> s,
              resp |-> Nil,
              err  |-> Some(StatusErrorf("InvalidArgument",
                         <<"recipient email cannot be empty">>))]
        ELSE IF Inbox(s, msg[1].RecipientEmail) # <<>>
        THEN [s    |-> s,
              resp |-> Some([Success |-> FALSE, Message |-> <<"mailbox full">>]),
              err  |-> Nil]
        ELSE [s    |-> [s EXCEPT !.userInboxes =
                          MapPut(s.userInboxes, msg[1].RecipientEmail,
                                 AppendMail(Inbox(s, msg[1].RecipientEmail), msg[1]))],
              resp |-> Some([Success |-> TRUE,
                             Message |-> <<"Mail received successfully">>]),
              err  |-> Nil]

ReceiveMail(s, req) ==
    LET msg == req.Message
    IN  IF msg = Nil
        THEN [s    |-> s,
              resp |-> Nil,
              err  |-> Some(StatusErrorf("InvalidArgument",
                         <<"mail message cannot be empty">>))]
        ELSE IF msg[1].RecipientEmail = EmptyString
        THEN [s    |-> s,
              resp |-> Nil,
              err  |-> Some(StatusErrorf("InvalidArgument",
                         <<"recipient email cannot be empty">>))]
        ELSE [s    |-> [s EXCEPT !.userInboxes =
                          MapPut(s.userInboxes, msg[1].RecipientEmail,
                                 AppendMail(Inbox(s, msg[1].RecipientEmail), msg[1]))],
              resp |-> Some([Success |-> TRUE,
                             Message |-> <<"Mail received successfully">>]),
              err  |-> Nil]

\* s.userInboxes[emailAddress] = []*proto.MailMessage{}
ClearInboxKeep(s, emailAddress) == s

ClearEveryInbox(s, emailAddress) ==
    [s EXCEPT !.userInboxes =
        [a \in (DOMAIN s.userInboxes) \cup {emailAddress} |-> <<>>]]

ClearInbox(s, emailAddress) ==
    [s EXCEPT !.userInboxes = MapPut(s.userInboxes, emailAddress, <<>>)]

\* GetMail(ctx, req)
GetMailAlwaysClears(s, req) ==
    LET emailAddress == req.EmailAddress
        messages     == Inbox(s, emailAddress)
    IN  IF emailAddress = EmptyString
        THEN [s    |-> s,
              resp |-> Nil,
              err  |-> Some(StatusErrorf("InvalidArgument",
                         <<"email address cannot be empty">>))]
        ELSE [s    |-> ClearInbox(s, emailAddress),
              resp |-> Some([Messages |-> messages]),
              err  |-> Nil]

GetMail(s, req) ==
    LET emailAddress == req.EmailAddress
        messages     == Inbox(s, emailAddress)
        found        == emailAddress \in DOMAIN s.userInboxes
    IN  IF emailAddress = EmptyString
        THEN [s    |-> s,
              resp |-> Nil,
              err  |-> Some(StatusErrorf("InvalidArgument",
                         <<"email address cannot be empty">>))]
        ELSE IF ~found \/ Len(messages) = 0
        THEN [s |-> s, resp |-> Some([Messages |-> <<>>]), err |-> Nil]
        ELSE [s    |-> ClearInbox(s, emailAddress),
              resp |-> Some([Messages |-> messages]),
              err  |-> Nil]

----------------------------------------------------------------------------
(* TransferServer: src/unnamed/part_000 *)

maxRetries == 3

\* time.Duration values, in milliseconds
initialBackoff == 500

maxBackoff == 5000

\* err.Error() of a gRPC status error, the %v of the formats below
ErrorString(e) == <<"rpc error: code = ", e.Code, " desc = ">> \o e.Message

\* %v of lastErr, which prints <nil> for the nil error
ErrorText(lastErr) == IF lastErr = Nil THEN <<"<nil>">> ELSE lastErr[1]

\* a SendMail call that has not been made yet
IdleCall ==
    [pc |-> "Idle", req |-> Nil, recipientMailboxAddr |-> EmptyString,
     i |-> 0, backoff |-> 0, lastErr |-> Nil, resp |-> Nil, err |-> Nil]

\* the message of the call's request; used once it was found not to be nil
MsgOf(k) == k.req[1].Message[1]

\* return resp, err
ReturnAndGoOn(k, pc, resp, err) == [k EXCEPT !.resp = resp, !.err = err]

Return(k, pc, resp, err) == [k EXCEPT !.pc = pc, !.resp = resp, !.err = err]

\* msg.RecipientEmail == ""
RecipientMissingUnchecked(msg) == FALSE

RecipientMissing(msg) == msg[1].RecipientEmail = EmptyString

\* the checks of the request
Validate(k) ==
    LET msg == k.req[1].Message
    IN  IF msg = Nil
        THEN Return(k, "Error", Nil,
                    Some(StatusErrorf("InvalidArgument",
                                      <<"mail message cannot be empty">>)))
        ELSE IF RecipientMissing(msg)
        THEN Return(k, "Error", Nil,
                    Some(StatusErrorf("InvalidArgument",
                                      <<"recipient email cannot be empty">>)))
        ELSE [k EXCEPT !.pc = "Resolving"]

\* lookupResp.GetFound(): false on a nil response
GetFoundAlways(lookupResp) == TRUE

GetFound(lookupResp) == lookupResp # Nil /\ lookupResp[1].Found

\* lookupResp.GetMailboxAddress(): "" on a nil response
GetMailboxAddress(lookupResp) ==
    IF lookupResp = Nil THEN EmptyString ELSE lookupResp[1].MailboxAddress

\* what follows the LookupMailbox call, given what it returned
ResolveIgnoresError(k, lookupResp, lookupErr) ==
    IF ~GetFound(lookupResp)
    THEN Return(k, "NotFound",
                Some([Success |-> FALSE,
                      Message |-> <<"Recipient '">> \o MsgOf(k).RecipientEmail
                                  \o <<"' not found">>]),
                Nil)
    ELSE [k EXCEPT !.pc = "Dialing",
                   !.recipientMailboxAddr = GetMailboxAddress(lookupResp)]

Resolve(k, lookupResp, lookupErr) ==
    IF lookupErr # Nil
    THEN Return(k, "Error", Nil,
                Some(StatusErrorf("Internal",
                       <<"failed to lookup recipient mailbox: ">>
                       \o ErrorString(lookupErr[1]))))
    ELSE IF ~GetFound(lookupResp)
    THEN Return(k, "NotFound",
                Some([Success |-> FALSE,
                      Message |-> <<"Recipient '">> \o MsgOf(k).RecipientEmail
                                  \o <<"' not found">>]),
                Nil)
    ELSE [k EXCEPT !.pc = "Dialing",
                   !.recipientMailboxAddr = GetMailboxAddress(lookupResp)]

\* the loop condition i <= maxRetries
LoopCondOneLess(i) == i < maxRetries

LoopCondOneMore(i) == i <= maxRetries + 1

LoopCond(i) == i <= maxRetries

\* the return after the loop: all attempts failed
ExhaustedCountsAttempts(k) ==
    Return(k, "Exhausted",
           Some([Success |-> FALSE,
                 Message |-> <<"Mail delivery failed after ", ToString(maxRetries + 1),
                               " retries: ">> \o ErrorText(k.lastErr)]),
           Nil)

Exhausted(k) ==
    Return(k, "Exhausted",
           Some([Success |-> FALSE,
                 Message |-> <<"Mail delivery failed after ", ToString(maxRetries),
                               " retries: ">> \o ErrorText(k.lastErr)]),
           Nil)

\* the head of the loop: another attempt, or the code after the loop
EnterLoop(k) ==
    IF LoopCond(k.i) THEN [k EXCEPT !.pc = "Delivering"] ELSE Exhausted(k)

\* what follows grpc.DialContext, given its error
DialIgnoresError(k, dialErr) ==
    EnterLoop([k EXCEPT !.lastErr = Nil, !.backoff = initialBackoff, !.i = 0])

Dial(k, dialErr) ==
    IF dialErr # Nil
    THEN Return(k, "Error", Nil,
                Some(StatusErrorf("Unavailable",
                       <<"failed to connect to recipient mailbox: ">> \o dialErr[1])))
    ELSE EnterLoop([k EXCEPT !.lastErr = Nil, !.backoff = initialBackoff, !.i = 0])

\* continue: i++ and the head of the loop
ContinueResolvesAgain(k) ==
    IF LoopCond(k.i + 1)
    THEN [k EXCEPT !.i = k.i + 1, !.pc = "Resolving"]
    ELSE Exhausted([k EXCEPT !.i = k.i + 1])

Continue(k) == EnterLoop([k EXCEPT !.i = k.i + 1])

\* i < maxRetries: a failed attempt is followed by a sleep
CanRetryAlways(i) == TRUE

CanRetry(i) == i < maxRetries

\* an attempt that returned an error: sleep if more retries are available,
\* else continue
Failed(k) == IF CanRetry(k.i) THEN [k EXCEPT !.pc = "Retrying"] ELSE Continue(k)

\* an attempt that returned a response without success: the same
RefusedNoSleep(k) == Continue(k)

Refused(k) == IF k.i < maxRetries THEN [k EXCEPT !.pc = "Retrying"] ELSE Continue(k)

\* what a successful attempt is followed by
SucceededAndGoesOn(k) == Continue(k)

Succeeded(k) ==
    Return(k, "Success",
           Some([Success |-> TRUE, Message |-> <<"Mail sent successfully">>]), Nil)

\* what follows one mailboxClient.ReceiveMail call, given what it returned
AttemptKeepsFirstError(k, receiveMailResp, err) ==
    IF err # Nil
    THEN Failed([k EXCEPT !.lastErr =
                    IF @ # Nil THEN @
                    ELSE Some(<<"error sending mail to mailbox '">>
                              \o k.recipientMailboxAddr \o <<"': ">>
                              \o ErrorString(err[1]))])
    ELSE IF receiveMailResp # Nil /\ receiveMailResp[1].Success
    THEN Succeeded(k)
    ELSE Refused([k EXCEPT !.lastErr =
                    IF @ # Nil THEN @
                    ELSE Some(<<"mail delivery to '">> \o MsgOf(k).RecipientEmail
                              \o <<"' failed: ">>
                              \o (IF receiveMailResp = Nil THEN EmptyString
                                  ELSE receiveMailResp[1].Message))])

Attempt(k, receiveMailResp, err) ==
    IF err # Nil
    THEN Failed([k EXCEPT !.lastErr =
                    Some(<<"error sending mail to mailbox '">>
                         \o k.recipientMailboxAddr \o <<"': ">>
                         \o ErrorString(err[1]))])
    ELSE IF receiveMailResp # Nil /\ receiveMailResp[1].Success
    THEN Succeeded(k)
    ELSE Refused([k EXCEPT !.lastErr =
                    Some(<<"mail delivery to '">> \o MsgOf(k).RecipientEmail
                         \o <<"' failed: ">>
                         \o (IF receiveMailResp = Nil THEN EmptyString
                             ELSE receiveMailResp[1].Message))])

\* backoff *= 2, capped at maxBackoff
NextBackoffAdds(backoff) ==
    IF backoff + initialBackoff > maxBackoff THEN maxBackoff
    ELSE backoff + initialBackoff

NextBackoff(backoff) ==
    IF backoff * 2 > maxBackoff THEN maxBackoff ELSE backoff * 2

\* the end of time.Sleep(backoff)
WakeUpSleepsAgain(k) == [k EXCEPT !.backoff = NextBackoff(k.backoff)]

WakeUp(k) == Continue([k EXCEPT !.backoff = NextBackoff(k.backoff)])

----------------------------------------------------------------------------
(* State *)

VARIABLES
    mailboxes,           \* Nameserver: email address -> mailbox address
    responsibleDomains,  \* Nameserver: the domains it manages
    nsCall,              \* the Nameserver's last call: request, response, error
    nsBefore,            \* mailboxes as it was before the last call
    lastAccepted,        \* history: per address, the location of the most
                         \* recent Register the Nameserver answered with success
    userInboxes,         \* Mailbox at each address: recipient -> messages
    Domain,              \* Mailbox at each address: its domain
    mbCall,              \* the Mailboxes' last call: where, request, response, error
    mbPrev,              \* the Mailboxes' call before the last one
    mbBefore,            \* userInboxes as it was before the last call
    sinceDrain,          \* history: per Mailbox and recipient, the messages
                         \* ReceiveMail answered with success since the last
                         \* GetMail for that recipient that returned a response
    drainExpected,       \* history: sinceDrain of the recipient of the last
                         \* GetMail, as it was when that call was made
    call,                \* TransferServer: each SendMail call's position and locals
    trace,               \* history: what each SendMail call has done so far
    rpc,                 \* per SendMail call, the response of the RPC the call
                         \* waits for, once the handler of the Nameserver or
                         \* the Mailbox has returned it
    timedOut,            \* the ReceiveMail requests of the delivery attempts
                         \* whose deadline passed at the TransferServer, a bag:
                         \* the call, the Mailbox, and whether the Mailbox's
                         \* handler has appended the message
    ctx,                 \* per SendMail call, the caller's context: "live",
                         \* "cancelled", and for the history "passed" (the call
                         \* woke up from a backoff with it cancelled) and
                         \* "late" (and then made a delivery attempt)
    tsMain,              \* TransferServer: where StartTransferServer is:
                         \* "serving", "stopping" (in s.GracefulStop()),
                         \* "stopped", "closed" (nameserverConn closed)
    history,             \* history: per SendMail call, the calls that had
                         \* returned success when it was made; and the calls
                         \* that had their lookup ahead of them when the
                         \* shutdown signal came
    nsThreads,           \* Nameserver: the goroutines serving its RPCs
    nsMu,                \* Nameserver: s.mu
    mbThreads,           \* Mailbox: the goroutines serving its RPCs
    mbMu,                \* Mailbox: s.mu
    ledger               \* history: per recipient, the messages the Mailbox
                         \* accepted and the messages its GetMail calls returned

nsVars == <<mailboxes, responsibleDomains, nsCall, nsBefore, lastAccepted, nsThreads, nsMu>>

mbVars == <<userInboxes, Domain, mbCall, mbPrev, mbBefore, sinceDrain, drainExpected,
           mbThreads, mbMu, ledger>>

tsVars == <<call, trace, rpc, timedOut, ctx, tsMain, history>>

vars == <<nsVars, mbVars, tsVars>>

Nameserver == [mailboxes |-> mailboxes, responsibleDomains |-> responsibleDomains]

NoCall == [op |-> "none", req |-> Nil, resp |-> Nil, err |-> Nil]

\* the zero value of sync.RWMutex: no writer, no readers
NewRWMutex == [writer |-> Nil, readers |-> {}]

\* mu.Lock() returns once no goroutine holds the lock, for writing or reading
CanLockAlways(mu) == TRUE

CanLock(mu) == mu.writer = Nil /\ mu.readers = {}

\* mu after mu.Lock() returned in goroutine p
Lock(mu, p) == [mu EXCEPT !.writer = Some(p)]

\* mu after mu.Unlock()
Unlock(mu) == [mu EXCEPT !.writer = Nil]

\* the goroutines that serve the Nameserver's RPCs at the same time
NSProcs == {1, 2, 3}

NSIdle ==
    [pc |-> "idle", op |-> "none", req |-> Nil, resp |-> Nil, err |-> Nil,
     window |-> {}]

InitNameserver ==
    /\ mailboxes = NewNameserver(ConfiguredDomains).mailboxes
    /\ responsibleDomains = NewNameserver(ConfiguredDomains).responsibleDomains
    /\ nsCall = NoCall
    /\ nsBefore = NewNameserver(ConfiguredDomains).mailboxes
    /\ lastAccepted = [a \in NSAddresses |-> Nil]
    /\ nsThreads = [p \in NSProcs |-> NSIdle]
    /\ nsMu = NewRWMutex

\* a client calls RegisterMailbox
Register(emailAddress, mailboxAddr) ==
    LET req == [EmailAddress |-> emailAddress, MailboxAddress |-> mailboxAddr]
        r   == RegisterMailbox(Nameserver, req)
    IN  /\ mailboxes' = r.s.mailboxes
        /\ responsibleDomains' = r.s.responsibleDomains
        /\ nsCall' = [op |-> "Register", req |-> Some(req),
                      resp |-> r.resp, err |-> r.err]
        /\ nsBefore' = mailboxes
        /\ lastAccepted' =
             IF r.err = Nil /\ r.resp # Nil /\ r.resp[1].Success
             THEN [lastAccepted EXCEPT ![emailAddress] = Some(mailboxAddr)]
             ELSE lastAccepted
        /\ UNCHANGED <<nsThreads, nsMu>>

\* a client calls LookupMailbox
Lookup(emailAddress) ==
    LET req == [EmailAddress |-> emailAddress]
        r   == LookupMailbox(Nameserver, req)
    IN  /\ mailboxes' = r.s.mailboxes
        /\ responsibleDomains' = r.s.responsibleDomains
        /\ nsCall' = [op |-> "Lookup", req |-> Some(req),
                      resp |-> r.resp, err |-> r.err]
        /\ nsBefore' = mailboxes
        /\ UNCHANGED <<lastAccepted, nsThreads, nsMu>>

NSRegister ==
    /\ \E a \in NSAddresses, l \in NSLocations : Register(a, l)
    /\ UNCHANGED <<mbVars, tsVars>>

NSLookup ==
    /\ \E a \in NSAddresses : Lookup(a)
    /\ UNCHANGED <<mbVars, tsVars>>

NextNS == NSRegister \/ NSLookup

----------------------------------------------------------------------------
(* The Nameserver's handlers as goroutines that take s.mu *)

\* the calls the concurrent clients make
NSRegisterRequests ==
    {[EmailAddress |-> a, MailboxAddress |-> l] :
        a \in {Alice, Diana}, l \in MailboxAddrs}

NSLookupRequests == {[EmailAddress |-> a] : a \in {Alice, EmptyString}}

\* how a handler takes the lock: both RegisterMailbox and LookupMailbox call
\* s.mu.Lock()
CanEnter(op, mu) == CanLock(mu)

\* s.mailboxes[a], as nil or the location
Entry(a) == IF a \in DOMAIN mailboxes THEN Some(mailboxes[a]) ELSE Nil

\* the RegisterMailbox call gets to the assignment of line 93
Stores(s, req) ==
    /\ RegisterMailbox(s, req).resp # Nil
    /\ RegisterMailbox(s, req).resp[1].Success

\* goroutine p holds s.mu
NSHolds(p) == nsThreads[p].pc \in {"locked", "writing"}

\* a value that is no location: what a read of the map may give while
\* another goroutine writes it
Torn == <<"?">>

\* the read of s.mailboxes in goroutine p is concurrent with a write of it:
\* a data race, after which the read may give anything
Racing(p) == \E q \in NSProcs \ {p} : nsThreads[q].pc = "writing"

RacyLookups ==
    {[s |-> Nameserver, resp |-> Some([Found |-> f, MailboxAddress |-> l]), err |-> Nil] :
        f \in BOOLEAN, l \in MailboxAddrs \cup {EmptyString, Torn}}

\* an RPC arrives and its handler, in a goroutine of its own, calls s.mu.Lock()
NSCall(p) ==
    /\ nsThreads[p].pc = "idle"
    /\ \/ \E req \in NSRegisterRequests :
             nsThreads' = [nsThreads EXCEPT ![p] =
                 [NSIdle EXCEPT !.pc = "waiting", !.op = "Register", !.req = Some(req)]]
       \/ \E req \in NSLookupRequests :
             nsThreads' = [nsThreads EXCEPT ![p] =
                 [NSIdle EXCEPT !.pc = "waiting", !.op = "Lookup", !.req = Some(req),
                                !.window = {Entry(req.EmailAddress)}]]
    /\ UNCHANGED <<mailboxes, responsibleDomains, nsCall, nsBefore, lastAccepted, nsMu>>
    /\ UNCHANGED <<mbVars, tsVars>>

\* s.mu.Lock() returns
NSLock(p) ==
    /\ nsThreads[p].pc = "waiting"
    /\ CanEnter(nsThreads[p].op, nsMu)
    /\ nsMu' = Lock(nsMu, p)
    /\ nsThreads' = [nsThreads EXCEPT ![p].pc = "locked"]
    /\ UNCHANGED <<mailboxes, responsibleDomains, nsCall, nsBefore, lastAccepted>>
    /\ UNCHANGED <<mbVars, tsVars>>

\* RegisterMailbox starts the assignment s.mailboxes[emailAddress] = mailboxAddr
NSWrite(p) ==
    /\ nsThreads[p].pc = "locked"
    /\ nsThreads[p].op = "Register"
    /\ Stores(Nameserver, nsThreads[p].req[1])
    /\ nsThreads' = [nsThreads EXCEPT ![p].pc = "writing"]
    /\ UNCHANGED <<mailboxes, responsibleDomains, nsCall, nsBefore, lastAccepted, nsMu>>
    /\ UNCHANGED <<mbVars, tsVars>>

\* the goroutines after p's handler returned r: p has its result, and the
\* lookups in flight for the address have seen the location that was stored
NSReturned(p, r) ==
    [q \in NSProcs |->
        IF q = p
        THEN [nsThreads[p] EXCEPT !.pc = "idle", !.resp = r.resp, !.err = r.err]
        ELSE IF /\ nsThreads[p].op = "Register"
                /\ r.err = Nil /\ r.resp[1].Success
                /\ nsThreads[q].op = "Lookup"
                /\ nsThreads[q].pc # "idle"
                /\ nsThreads[q].req[1].EmailAddress = nsThreads[p].req[1].EmailAddress
        THEN [nsThreads[q] EXCEPT !.window = @ \cup {Some(nsThreads[p].req[1].MailboxAddress)}]
        ELSE nsThreads[q]]

\* the rest of RegisterMailbox, with the deferred s.mu.Unlock()
NSRegisterReturn(p) ==
    /\ nsThreads[p].op = "Register"
    /\ IF Stores(Nameserver, nsThreads[p].req[1])
       THEN nsThreads[p].pc = "writing"
       ELSE nsThreads[p].pc = "locked"
    /\ LET r == RegisterMailbox(Nameserver, nsThreads[p].req[1])
       IN  /\ mailboxes' = r.s.mailboxes
           /\ responsibleDomains' = r.s.responsibleDomains
           /\ nsThreads' = NSReturned(p, r)
    /\ nsMu' = Unlock(nsMu)
    /\ UNCHANGED <<nsCall, nsBefore, lastAccepted>>
    /\ UNCHANGED <<mbVars, tsVars>>

\* the rest of LookupMailbox, with the deferred s.mu.Unlock()
NSLookupReturn(p) ==
    /\ nsThreads[p].op = "Lookup"
    /\ nsThreads[p].pc = "locked"
    /\ \E r \in IF Racing(p)
                THEN RacyLookups
                ELSE {LookupMailbox(Nameserver, nsThreads[p].req[1])} :
          /\ mailboxes' = r.s.mailboxes
          /\ responsibleDomains' = r.s.responsibleDomains
          /\ nsThreads' = NSReturned(p, r)
    /\ nsMu' = Unlock(nsMu)
    /\ UNCHANGED <<nsCall, nsBefore, lastAccepted>>
    /\ UNCHANGED <<mbVars, tsVars>>

NextNSLocked ==
    \E p \in NSProcs :
        \/ NSCall(p)
        \/ NSLock(p)
        \/ NSWrite(p)
        \/ NSRegisterReturn(p)
        \/ NSLookupReturn(p)

----------------------------------------------------------------------------
(* The Mailbox servers *)

\* main.go: StartMailbox("earth", EarthMailboxPort), StartMailbox("saturn", ...)
MailboxDomain(addr) == IF addr = EarthMailboxAddr THEN <<"earth">> ELSE <<"saturn">>

Mailbox(addr) == [userInboxes |-> userInboxes[addr], Domain |-> Domain[addr]]

\* every address a message of the model can be stored under
Recipients == {Alice, Charlie, Bob, Diana, NoAtSign}

\* the goroutines that serve the Mailbox's RPCs at the same time
MBProcs == {1, 2, 3}

MBIdle ==
    [pc |-> "idle", op |-> "none", req |-> Nil, messages |-> <<>>, found |-> FALSE,
     resp |-> Nil, err |-> Nil]

\* the most ReceiveMail calls the concurrent clients make
MaxSent == 2

\* the recipients of the concurrent clients' calls
MBRecipients == {Alice, Charlie}

NewLedger ==
    [accepted |-> [a \in MBRecipients |-> <<>>],
     returned |-> [a \in MBRecipients |-> <<>>],
     sent     |-> 0]

InitMailbox ==
    /\ userInboxes = [addr \in MailboxAddrs |-> NewMailbox(MailboxDomain(addr)).userInboxes]
    /\ Domain = [addr \in MailboxAddrs |-> NewMailbox(MailboxDomain(addr)).Domain]
    /\ mbCall = [op |-> "none", at |-> Nil, req |-> Nil, resp |-> Nil, err |-> Nil]
    /\ mbPrev = [op |-> "none", at |-> Nil, req |-> Nil, resp |-> Nil, err |-> Nil]
    /\ mbBefore = userInboxes
    /\ sinceDrain = [addr \in MailboxAddrs |-> [a \in Recipients |-> <<>>]]
    /\ drainExpected = <<>>
    /\ mbThreads = [p \in MBProcs |-> MBIdle]
    /\ mbMu = NewRWMutex
    /\ ledger = NewLedger

\* the Mailbox at addr runs ReceiveMail: its state and the history of
\* accepted messages
Serve(addr, req) ==
    LET r == ReceiveMail(Mailbox(addr), req)
    IN  /\ userInboxes' = [userInboxes EXCEPT ![addr] = r.s.userInboxes]
        /\ Domain' = [Domain EXCEPT ![addr] = r.s.Domain]
        /\ sinceDrain' =
             IF r.err = Nil /\ r.resp # Nil /\ r.resp[1].Success
             THEN [sinceDrain EXCEPT ![addr][req.Message[1].RecipientEmail] =
                                        Append(@, req.Message[1])]
             ELSE sinceDrain
        /\ UNCHANGED <<mbThreads, mbMu, ledger>>

\* the Mailbox at addr serves the ReceiveMail call of a client of its own
Receive(addr, req) ==
    LET r == ReceiveMail(Mailbox(addr), req)
    IN  /\ Serve(addr, req)
        /\ mbCall' = [op |-> "ReceiveMail", at |-> Some(addr), req |-> Some(req),
                      resp |-> r.resp, err |-> r.err]
        /\ mbPrev' = mbCall
        /\ mbBefore' = userInboxes
        /\ UNCHANGED drainExpected

\* the Mailbox at addr serves the GetMail call of a client
Get(addr, emailAddress) ==
    LET req == [EmailAddress |-> emailAddress]
        r   == GetMail(Mailbox(addr), req)
    IN  /\ userInboxes' = [userInboxes EXCEPT ![addr] = r.s.userInboxes]
        /\ Domain' = [Domain EXCEPT ![addr] = r.s.Domain]
        /\ mbCall' = [op |-> "GetMail", at |-> Some(addr), req |-> Some(req),
                      resp |-> r.resp, err |-> r.err]
        /\ mbPrev' = mbCall
        /\ mbBefore' = userInboxes
        /\ sinceDrain' =
             IF r.err = Nil /\ r.resp # Nil
             THEN [sinceDrain EXCEPT ![addr][emailAddress] = <<>>]
             ELSE sinceDrain
        /\ drainExpected' =
             IF emailAddress \in Recipients
             THEN sinceDrain[addr][emailAddress]
             ELSE <<>>
        /\ UNCHANGED <<mbThreads, mbMu, ledger>>

\* whether the model lets the inbox this request goes to grow
RoomFor(addr, req) ==
    IF req.Message = Nil
    THEN TRUE
    ELSE Len(Inbox(Mailbox(addr), req.Message[1].RecipientEmail)) < MaxInbox

\* clients of the earth Mailbox
MBReceive ==
    /\ \E req \in MBReceiveRequests :
          /\ RoomFor(EarthMailboxAddr, req)
          /\ Receive(EarthMailboxAddr, req)
    /\ UNCHANGED <<nsVars, tsVars>>

MBGet ==
    /\ \E a \in MBAddresses : Get(EarthMailboxAddr, a)
    /\ UNCHANGED <<nsVars, tsVars>>

NextMB == MBReceive \/ MBGet

----------------------------------------------------------------------------
(* The earth Mailbox's handlers as goroutines that take s.mu *)

\* GetMail up to the read of the inbox: messages, found := s.userInboxes[emailAddress]
GetMailRead(s, req) ==
    [messages |-> Inbox(s, req.EmailAddress),
     found    |-> req.EmailAddress \in DOMAIN s.userInboxes]

\* GetMail after the read: the server after the call, the response, the error
GetMailRest(s, req, messages, found) ==
    IF ~found \/ Len(messages) = 0
    THEN [s |-> s, resp |-> Some([Messages |-> <<>>]), err |-> Nil]
    ELSE [s    |-> ClearInbox(s, req.EmailAddress),
          resp |-> Some([Messages |-> messages]),
          err  |-> Nil]

\* the message of the ReceiveMail call number n of the concurrent clients
MBSent(n, recipient) ==
    MailMessage(Bob, recipient, <<"Mail ", ToString(n)>>, <<"Hi">>, n)

\* goroutine p holds s.mu
MBHolds(p) == mbThreads[p].pc \in {"locked", "read"}

\* the recipient whose inbox the call of goroutine p is about
MBRecipientOf(p) ==
    IF mbThreads[p].op = "ReceiveMail"
    THEN mbThreads[p].req[1].Message[1].RecipientEmail
    ELSE mbThreads[p].req[1].EmailAddress

\* an RPC arrives and its handler, in a goroutine of its own, calls s.mu.Lock()
MBCall(p) ==
    /\ mbThreads[p].pc = "idle"
    /\ \/ /\ ledger.sent < MaxSent
          /\ \E a \in MBRecipients :
                mbThreads' = [mbThreads EXCEPT ![p] =
                    [MBIdle EXCEPT !.pc = "waiting", !.op = "ReceiveMail",
                        !.req = Some([Message |-> Some(MBSent(ledger.sent + 1, a))])]]
          /\ ledger' = [ledger EXCEPT !.sent = @ + 1]
       \/ /\ \E a \in MBRecipients :
                mbThreads' = [mbThreads EXCEPT ![p] =
                    [MBIdle EXCEPT !.pc = "waiting", !.op = "GetMail",
                        !.req = Some([EmailAddress |-> a])]]
          /\ UNCHANGED ledger
    /\ UNCHANGED <<userInboxes, Domain, mbCall, mbPrev, mbBefore, sinceDrain,
                   drainExpected, mbMu>>
    /\ UNCHANGED <<nsVars, tsVars>>

\* s.mu.Lock() returns
MBLock(p) ==
    /\ mbThreads[p].pc = "waiting"
    /\ CanLock(mbMu)
    /\ mbMu' = Lock(mbMu, p)
    /\ mbThreads' = [mbThreads EXCEPT ![p].pc = "locked"]
    /\ UNCHANGED <<userInboxes, Domain, mbCall, mbPrev, mbBefore, sinceDrain,
                   drainExpected, ledger>>
    /\ UNCHANGED <<nsVars, tsVars>>

\* GetMail reads the inbox
MBRead(p) ==
    /\ mbThreads[p].pc = "locked"
    /\ mbThreads[p].op = "GetMail"
    /\ mbThreads[p].req[1].EmailAddress # EmptyString
    /\ LET r == GetMailRead(Mailbox(EarthMailboxAddr), mbThreads[p].req[1])
       IN  mbThreads' = [mbThreads EXCEPT ![p].pc = "read",
                                          ![p].messages = r.messages,
                                          ![p].found = r.found]
    /\ UNCHANGED <<userInboxes, Domain, mbCall, mbPrev, mbBefore, sinceDrain,
                   drainExpected, mbMu, ledger>>
    /\ UNCHANGED <<nsVars, tsVars>>

\* the handler of goroutine p returns r, with the deferred s.mu.Unlock()
MBReturned(p, r) ==
    /\ userInboxes' = [userInboxes EXCEPT ![EarthMailboxAddr] = r.s.userInboxes]
    /\ Domain' = [Domain EXCEPT ![EarthMailboxAddr] = r.s.Domain]
    /\ mbThreads' = [mbThreads EXCEPT ![p].pc = "idle", ![p].resp = r.resp,
                                      ![p].err = r.err]
    /\ mbMu' = Unlock(mbMu)
    /\ UNCHANGED <<mbCall, mbPrev, mbBefore, sinceDrain, drainExpected>>
    /\ UNCHANGED <<nsVars, tsVars>>

\* the whole of ReceiveMail after the lock was taken
MBReceiveReturn(p) ==
    /\ mbThreads[p].pc = "locked"
    /\ mbThreads[p].op = "ReceiveMail"
    /\ LET r == ReceiveMail(Mailbox(EarthMailboxAddr), mbThreads[p].req[1])
       IN  /\ MBReturned(p, r)
           /\ ledger' =
                IF r.err = Nil /\ r.resp[1].Success
                THEN [ledger EXCEPT !.accepted[MBRecipientOf(p)] =
                                       Append(@, mbThreads[p].req[1].Message[1])]
                ELSE ledger

\* the rest of GetMail after the read of the inbox
MBGetReturn(p) ==
    /\ mbThreads[p].pc = "read"
    /\ mbThreads[p].op = "GetMail"
    /\ LET r == GetMailRest(Mailbox(EarthMailboxAddr), mbThreads[p].req[1],
                            mbThreads[p].messages, mbThreads[p].found)
       IN  /\ MBReturned(p, r)
           /\ ledger' = [ledger EXCEPT !.returned[MBRecipientOf(p)] =
                                          @ \o r.resp[1].Messages]

NextMBLocked ==
    \E p \in MBProcs :
        \/ MBCall(p)
        \/ MBLock(p)
        \/ MBRead(p)
        \/ MBReceiveReturn(p)
        \/ MBGetReturn(p)

----------------------------------------------------------------------------
(* The TransferServer and its SendMail calls *)

\* the SendMail calls of a run, each served in a goroutine of its own; they
\* are made in the order of their numbers and may overlap
Calls == {1, 2}

\* the most delivery attempts of a run whose deadline passes with the
\* Mailbox listening
MaxLost == 1

\* the requests SendMail call n is made with: without a message, or
\* with a message of its own to no one, alice, diana or an address without "@"
SendRequests(n) ==
    {[Message |-> Nil]} \cup
    {[Message |-> Some(MailMessage(Bob, r, <<"Mail ", ToString(n)>>,
                                   <<"Hi, this is a test email">>, n))] :
        r \in {EmptyString, Alice, Diana, NoAtSign}}

\* the errors the transport gives when a call does not go through, and when
\* its response does not arrive in time
Unavailable == StatusErrorf("Unavailable", <<"mock mailbox unavailable (simulated transient error)">>)

DeadlineExceeded == StatusErrorf("DeadlineExceeded", <<"context deadline exceeded">>)

\* the answer of a Mailbox service that turns a message down
Refusal == [Success |-> FALSE, Message |-> <<"mailbox full">>]

NoTrace ==
    [lookups |-> 0, lookup |-> "none", resolved |-> <<>>, dial |-> "none",
     attempts |-> 0,
     seen |-> <<>>, dests |-> <<>>, last |-> Nil, sleeps |-> <<>>, lost |-> 0]

NoHistory == [succeededBefore |-> [c \in Calls |-> {}], lookupAhead |-> {}]

InitTransferServer ==
    /\ call = [c \in Calls |-> IdleCall]
    /\ trace = [c \in Calls |-> NoTrace]
    /\ rpc = [c \in Calls |-> Nil]
    /\ timedOut = EmptyBag
    /\ ctx = [c \in Calls |-> "live"]
    /\ tsMain = "serving"
    /\ history = NoHistory

\* the calls that call c has to wait for before it can go on: none, as gRPC
\* serves every call in a goroutine of its own and SendMail takes no lock
WaitsForSleepers(c) == {d \in Calls \ {c} : call[d].pc = "Retrying"}

WaitsFor(c) == {}

\* a mailbox registers alice with the Nameserver
TSRegister ==
    /\ \E l \in MailboxAddrs : Register(Alice, l)
    /\ UNCHANGED <<mbVars, tsVars>>

\* the gRPC server takes new RPCs until GracefulStop is called
Accepting(main) == main = "serving"

\* the connection to the Nameserver, nameserverConn, is open
ConnOpen(main) == main # "closed"

\* a client calls SendMail
TSStart(c) ==
    /\ call[c].pc = "Idle"
    /\ \A d \in Calls : d < c => call[d].pc # "Idle"
    /\ Accepting(tsMain)
    /\ \E req \in SendRequests(c) :
          call' = [call EXCEPT ![c] = [IdleCall EXCEPT !.pc = "Validating",
                                                      !.req = Some(req)]]
    /\ history' = [history EXCEPT !.succeededBefore[c] =
                      {d \in Calls : call[d].pc = "Success"}]
    /\ UNCHANGED <<nsVars, mbVars, trace, rpc, timedOut, ctx, tsMain>>

TSValidate(c) ==
    /\ call[c].pc = "Validating"
    /\ WaitsFor(c) = {}
    /\ call' = [call EXCEPT ![c] = Validate(call[c])]
    /\ UNCHANGED <<nsVars, mbVars, trace, rpc, timedOut, ctx, tsMain, history>>

\* what the lookup did, for the history
LookupOutcome(lookupResp, lookupErr) ==
    IF lookupErr # Nil THEN "error"
    ELSE IF lookupResp[1].Found THEN "found" ELSE "notfound"

\* the call got (lookupResp, lookupErr) from s.nameserverClient.LookupMailbox
Resolved(c, lookupResp, lookupErr) ==
    /\ call' = [call EXCEPT ![c] = Resolve(call[c], lookupResp, lookupErr)]
    /\ trace' = [trace EXCEPT ![c].lookups = @ + 1,
                              ![c].lookup = LookupOutcome(lookupResp, lookupErr),
                              ![c].resolved = Append(@, GetMailboxAddress(lookupResp))]
    /\ rpc' = [rpc EXCEPT ![c] = Nil]

\* the call waits for an RPC whose handler has not run
Sent(c) == rpc[c] = Nil

\* the call waits for an RPC whose handler has returned a response
Answered(c) == rpc[c] # Nil

\* the Nameserver's handler serves the lookup of the call, which waits in
\* s.nameserverClient.LookupMailbox for the response
TSLookupMailbox(c) ==
    /\ call[c].pc = "Resolving"
    /\ Sent(c)
    /\ ConnOpen(tsMain)
    /\ LET r == LookupMailbox(Nameserver,
                               [EmailAddress |-> MsgOf(call[c]).RecipientEmail])
       IN  /\ mailboxes' = r.s.mailboxes
           /\ responsibleDomains' = r.s.responsibleDomains
           /\ rpc' = [rpc EXCEPT ![c] = Some([resp |-> r.resp, err |-> r.err])]
    /\ UNCHANGED <<nsCall, nsBefore, lastAccepted, nsThreads, nsMu, mbVars,
                   call, trace, timedOut, ctx, tsMain, history>>

\* the response of the Nameserver is back at the call
TSLookup(c) ==
    /\ call[c].pc = "Resolving"
    /\ WaitsFor(c) = {}
    /\ Answered(c)
    /\ ConnOpen(tsMain)
    /\ Resolved(c, rpc[c][1].resp, rpc[c][1].err)
    /\ UNCHANGED <<nsVars, mbVars, timedOut, ctx, tsMain, history>>

\* the lookup does not get through to the Nameserver, or its response does
\* not get back
TSLookupFails(c) ==
    /\ call[c].pc = "Resolving"
    /\ WaitsFor(c) = {}
    /\ Resolved(c, Nil, Some(Unavailable))
    /\ UNCHANGED <<nsVars, mbVars, timedOut, ctx, tsMain, history>>

TSDial(c) ==
    /\ call[c].pc = "Dialing"
    /\ WaitsFor(c) = {}
    /\ \E dialErr \in {Nil, Some(<<"context deadline exceeded">>)} :
          /\ call' = [call EXCEPT ![c] = Dial(call[c], dialErr)]
          /\ trace' = [trace EXCEPT ![c].dial = IF dialErr = Nil THEN "ok" ELSE "error"]
    /\ UNCHANGED <<nsVars, mbVars, rpc, timedOut, ctx, tsMain, history>>

\* the call got (receiveMailResp, err) from mailboxClient.ReceiveMail
Attempted(c, receiveMailResp, err, lost) ==
    LET k == Attempt(call[c], receiveMailResp, err)
    IN  /\ call' = [call EXCEPT ![c] = k]
        /\ trace' = [trace EXCEPT
              ![c].attempts = @ + 1,
              ![c].seen = Append(@, IF err = Nil /\ receiveMailResp[1].Success
                                    THEN "ok" ELSE "fail"),
              ![c].dests = Append(@, call[c].recipientMailboxAddr),
              ![c].last = Some([resp |-> receiveMailResp, err |-> err]),
              ![c].sleeps = IF k.pc = "Retrying" THEN Append(@, call[c].backoff) ELSE @,
              ![c].lost = @ + BagCardinality(lost)]
        /\ rpc' = [rpc EXCEPT ![c] = Nil]
        /\ timedOut' = timedOut (+) lost
        /\ ctx' = [ctx EXCEPT ![c] = IF @ = "passed" THEN "late" ELSE @]
        /\ UNCHANGED <<tsMain, history>>

\* a Mailbox of this repository listens at the address
Listening(addr) == addr \in MailboxAddrs

\* the Mailbox at the resolved address serves the request of the attempt,
\* while the call waits in mailboxClient.ReceiveMail for the response
TSReceiveMail(c) ==
    /\ call[c].pc = "Delivering"
    /\ Sent(c)
    /\ Listening(call[c].recipientMailboxAddr)
    /\ LET req == [Message |-> Some(MsgOf(call[c]))]
           r   == ReceiveMail(Mailbox(call[c].recipientMailboxAddr), req)
       IN  /\ Serve(call[c].recipientMailboxAddr, req)
           /\ rpc' = [rpc EXCEPT ![c] = Some([resp |-> r.resp, err |-> r.err])]
    /\ UNCHANGED <<nsVars, Domain, mbCall, mbPrev, mbBefore, drainExpected,
                   call, trace, timedOut, ctx, tsMain, history>>

\* the response of the Mailbox is back at the call
TSDeliver(c) ==
    /\ call[c].pc = "Delivering"
    /\ WaitsFor(c) = {}
    /\ Answered(c)
    /\ Attempted(c, rpc[c][1].resp, rpc[c][1].err, EmptyBag)
    /\ UNCHANGED <<nsVars, mbVars>>

\* the request of the attempt call c is making, for the record of the
\* attempts whose deadline passed
RequestOf(c, stored) ==
    [call |-> c, addr |-> call[c].recipientMailboxAddr, stored |-> stored]

\* the deadline of sendToMailboxCtx passes after the Mailbox has served the
\* request of the attempt and before its response is back at the call
TSDeliverLost(c) ==
    /\ call[c].pc = "Delivering"
    /\ WaitsFor(c) = {}
    /\ Answered(c)
    /\ BagCardinality(timedOut) < MaxLost
    /\ Attempted(c, Nil, Some(DeadlineExceeded), SetToBag({RequestOf(c, TRUE)}))
    /\ UNCHANGED <<nsVars, mbVars>>

\* an attempt whose deadline passes before the Mailbox's handler has
\* appended the message: the handler, which does not read its ctx, may still
\* append it, at any later time
TSDeadline(c) ==
    /\ call[c].pc = "Delivering"
    /\ WaitsFor(c) = {}
    /\ Sent(c)
    /\ Listening(call[c].recipientMailboxAddr)
    /\ BagCardinality(timedOut) < MaxLost
    /\ Attempted(c, Nil, Some(DeadlineExceeded), SetToBag({RequestOf(c, FALSE)}))
    /\ UNCHANGED <<nsVars, mbVars>>

\* the Mailbox's handler appends the message of an attempt whose deadline
\* has passed
TSLateAppend ==
    /\ \E r \in BagToSet(timedOut) :
          /\ ~r.stored
          /\ Serve(r.addr, [Message |-> Some(MsgOf(call[r.call]))])
          /\ timedOut' = (timedOut (-) SetToBag({r})) (+) SetToBag({[r EXCEPT !.stored = TRUE]})
    /\ UNCHANGED <<nsVars, Domain, mbCall, mbPrev, mbBefore, drainExpected,
                   call, trace, rpc, ctx, tsMain, history>>

\* an attempt that does not reach a Mailbox
TSDeliverFails(c) ==
    /\ call[c].pc = "Delivering"
    /\ WaitsFor(c) = {}
    /\ Sent(c)
    /\ Attempted(c, Nil, Some(Unavailable), EmptyBag)
    /\ UNCHANGED <<nsVars, mbVars>>

\* an attempt that a Mailbox service answers with success=false
TSDeliverRefused(c) ==
    /\ call[c].pc = "Delivering"
    /\ WaitsFor(c) = {}
    /\ Sent(c)
    /\ Attempted(c, Some(Refusal), Nil, EmptyBag)
    /\ UNCHANGED <<nsVars, mbVars>>

\* time.Sleep(backoff) returns
TSWakeUp(c) ==
    /\ call[c].pc = "Retrying"
    /\ call' = [call EXCEPT ![c] = WakeUp(call[c])]
    /\ ctx' = [ctx EXCEPT ![c] = IF @ = "cancelled" THEN "passed" ELSE @]
    /\ UNCHANGED <<nsVars, mbVars, trace, rpc, timedOut, tsMain, history>>

\* the caller cancels the context of its call while the call is in the
\* retry loop; SendMail never reads ctx
TSCancel(c) ==
    /\ call[c].pc \in {"Delivering", "Retrying"}
    /\ ctx[c] = "live"
    /\ ctx' = [ctx EXCEPT ![c] = "cancelled"]
    /\ UNCHANGED <<nsVars, mbVars, call, trace, rpc, timedOut, tsMain, history>>

\* the most GetMail calls of a run with SendMail calls
MaxDrains == 1

\* the GetMail calls made so far, of which the last two are on record
Drains ==
    IF mbCall.op # "GetMail" THEN 0
    ELSE IF mbPrev.op # "GetMail" THEN 1
    ELSE 2

\* s.GracefulStop() returns once no RPC is pending
StopsAtOnce(calls) == TRUE

NoPendingRPC(calls) ==
    \A c \in DOMAIN calls :
        calls[c].pc \in {"Idle", "NotFound", "Success", "Exhausted", "Error"}

\* a client calls GetMail for alice, at any time
TSGetMail ==
    /\ Drains < MaxDrains
    /\ \E addr \in MailboxAddrs : Get(addr, Alice)
    /\ UNCHANGED <<nsVars, tsVars>>

\* StartTransferServer gets SIGINT or SIGTERM and calls s.GracefulStop()
TSSignal ==
    /\ tsMain = "serving"
    /\ tsMain' = "stopping"
    /\ history' = [history EXCEPT !.lookupAhead =
                      {c \in Calls : call[c].pc \in {"Validating", "Resolving"}}]
    /\ UNCHANGED <<nsVars, mbVars, call, trace, rpc, timedOut, ctx>>

\* s.GracefulStop() returns
TSStopped ==
    /\ tsMain = "stopping"
    /\ NoPendingRPC(call)
    /\ tsMain' = "stopped"
    /\ UNCHANGED <<nsVars, mbVars, call, trace, rpc, timedOut, ctx, history>>

\* nameserverConn.Close()
TSClose ==
    /\ tsMain = "stopped"
    /\ tsMain' = "closed"
    /\ UNCHANGED <<nsVars, mbVars, call, trace, rpc, timedOut, ctx, history>>

NextTS ==
    \/ TSRegister
    \/ TSLateAppend
    \/ \E c \in Calls :
          \/ TSStart(c)
          \/ TSValidate(c)
          \/ TSLookupMailbox(c)
          \/ TSLookup(c)
          \/ TSLookupFails(c)
          \/ TSDial(c)
          \/ TSReceiveMail(c)
          \/ TSDeliver(c)
          \/ TSDeliverLost(c)
          \/ TSDeadline(c)
          \/ TSDeliverFails(c)
          \/ TSDeliverRefused(c)
          \/ TSWakeUp(c)

----------------------------------------------------------------------------

Init == InitNameserver /\ InitMailbox /\ InitTransferServer

\* the steps of SendMail call c
CallStep(c) ==
    \/ TSStart(c)
    \/ TSValidate(c)
    \/ TSLookupMailbox(c)
    \/ TSLookup(c)
    \/ TSLookupFails(c)
    \/ TSDial(c)
    \/ TSReceiveMail(c)
    \/ TSDeliver(c)
    \/ TSDeliverLost(c)
    \/ TSDeadline(c)
    \/ TSDeliverFails(c)
    \/ TSDeliverRefused(c)
    \/ TSWakeUp(c)

\* the Nameserver and its clients
SpecNS == Init /\ [][NextNS]_vars

\* the Nameserver with clients that call it at the same time
SpecNSLocked == Init /\ [][NextNSLocked]_vars

\* the earth Mailbox and its clients
SpecMB == Init /\ [][NextMB]_vars

\* the earth Mailbox with clients that call it at the same time
SpecMBLocked == Init /\ [][NextMBLocked]_vars

\* the TransferServer with the Nameserver and the two Mailboxes
Spec == Init /\ [][NextTS]_vars

\* the same, where every call's goroutine is always scheduled again: its
\* RPCs return, each within its timeout, and its sleeps end
SpecTerminates == Spec /\ \A c \in Calls : WF_vars(CallStep(c))

\* the same, where the goroutine of call 2 is always scheduled again, its
\* RPCs return and its sleeps end, while call 1 may stay where it is
SpecProgress == Spec /\ WF_vars(CallStep(2))

\* the same as Spec, with clients that fetch alice's mail at any time
NextDrain == NextTS \/ TSGetMail

SpecDrain == Init /\ [][NextDrain]_vars

\* the same as Spec, with the shutdown of the TransferServer
NextShutdown == NextTS \/ TSSignal \/ TSStopped \/ TSClose

SpecShutdown == Init /\ [][NextShutdown]_vars

\* the same as Spec, with callers that cancel
NextCtx == NextTS \/ \E c \in Calls : TSCancel(c)

SpecCtx == Init /\ [][NextCtx]_vars

----------------------------------------------------------------------------
(* The Nameserver's claims, under SpecNS *)

\* the AuthorizedDomainSet the Nameserver was constructed with
AuthorizedDomainSet == NewNameserver(ConfiguredDomains).responsibleDomains

\* an address with exactly one "@"
WellFormed(a) == Len(Split(a, At)) = 2

DomainOf(a) == Split(a, At)[2]

LastLookupOf(a) ==
    /\ nsCall.op = "Lookup"
    /\ nsCall.req[1].EmailAddress = a

\* C1: a Lookup of a (non-empty) address answers (found=true, L) exactly when
\* the most recent Register of that address the Nameserver accepted carried
\* L, and (found=false, "") when it never accepted one.
C1_ReadYourWrites ==
    \A a \in NSAddresses \ {EmptyString} :
        LastLookupOf(a) =>
            /\ nsCall.err = Nil
            /\ nsCall.resp =
                 IF lastAccepted[a] = Nil
                 THEN Some([Found |-> FALSE, MailboxAddress |-> EmptyString])
                 ELSE Some([Found |-> TRUE, MailboxAddress |-> lastAccepted[a][1]])

\* a Lookup of alice finds the second location registered for her, while
\* bob is registered at the other one
C1_Witness ==
    /\ LastLookupOf(Alice)
    /\ nsCall.resp = Some([Found |-> TRUE, MailboxAddress |-> SaturnMailboxAddr])
    /\ Bob \in DOMAIN mailboxes
    /\ mailboxes[Bob] = EarthMailboxAddr

LastRegisterUnmanaged ==
    /\ nsCall.op = "Register"
    /\ nsCall.req[1].MailboxAddress # EmptyString
    /\ WellFormed(nsCall.req[1].EmailAddress)
    /\ DomainOf(nsCall.req[1].EmailAddress) \notin AuthorizedDomainSet

\* C2: a Register of a well-formed address in a domain outside the
\* AuthorizedDomainSet is answered, without an error, success=false and
\* "Domain '<domain>' is not managed by this Nameserver."; the address map
\* is as before, and a Lookup of the address then answers found=false.
C2_UnmanagedDomainRejected ==
    LastRegisterUnmanaged =>
        /\ nsCall.err = Nil
        /\ nsCall.resp =
             Some([Success |-> FALSE,
                   Message |-> <<"Domain '">> \o DomainOf(nsCall.req[1].EmailAddress)
                               \o <<"' is not managed by this Nameserver.">>])
        /\ mailboxes = nsBefore
        /\ LookupMailbox(Nameserver, [EmailAddress |-> nsCall.req[1].EmailAddress]).resp
             = Some([Found |-> FALSE, MailboxAddress |-> EmptyString])
        /\ LookupMailbox(Nameserver, [EmailAddress |-> nsCall.req[1].EmailAddress]).err
             = Nil

\* diana@mars.com was just refused by a Nameserver that holds entries
C2_Witness ==
    /\ LastRegisterUnmanaged
    /\ nsCall.req[1].EmailAddress = Diana
    /\ Alice \in DOMAIN mailboxes

\* C3: every address of the address map has exactly one "@" and a domain of
\* the AuthorizedDomainSet given at construction, and responsibleDomains is
\* still that set.
C3_OnlyAuthorizedDomains ==
    /\ \A a \in DOMAIN mailboxes :
          WellFormed(a) /\ DomainOf(a) \in AuthorizedDomainSet
    /\ responsibleDomains = AuthorizedDomainSet

\* both managed domains hold an entry after registrations were refused
C3_Witness ==
    /\ DOMAIN mailboxes = {Alice, Bob}
    /\ nsCall.op = "Register"
    /\ nsCall.req[1].EmailAddress = EmptyDomain
    /\ nsCall.resp # Nil

----------------------------------------------------------------------------
(* The Mailbox's claims, under SpecMB *)

LastGetMailOf(a) ==
    /\ mbCall.op = "GetMail"
    /\ mbCall.req[1].EmailAddress = a

\* C4: GetMail of a (non-empty) address returns, without an error, exactly
\* the messages ReceiveMail accepted for that address since the previous
\* GetMail of it, each once and in the order they were accepted; and every
\* inbox holds exactly the messages accepted for it since it was last drained.
C4_DrainReturnsAcceptedInOrder ==
    /\ \A a \in MBAddresses \ {EmptyString} :
          LastGetMailOf(a) =>
              /\ mbCall.err = Nil
              /\ mbCall.resp = Some([Messages |-> drainExpected])
    /\ \A addr \in MailboxAddrs, a \in Recipients :
          Inbox(Mailbox(addr), a) = sinceDrain[addr][a]

\* alice's two different messages came back in the order they were accepted,
\* while charlie's inbox holds a message
C4_Witness ==
    /\ LastGetMailOf(Alice)
    /\ Len(mbCall.resp[1].Messages) = 2
    /\ mbCall.resp[1].Messages[1].Timestamp = 2
    /\ mbCall.resp[1].Messages[2].Timestamp = 1
    /\ Len(Inbox(Mailbox(EarthMailboxAddr), Charlie)) = 1

\* the last two calls were GetMail of the same address at the same Mailbox
\* and the first of them returned a response
TwoDrainsInARow ==
    /\ mbCall.op = "GetMail"
    /\ mbPrev.op = "GetMail"
    /\ mbPrev.at = mbCall.at
    /\ mbPrev.req = mbCall.req
    /\ mbPrev.err = Nil

\* C5: a GetMail issued right after a GetMail of the same address returns
\* the empty sequence.
C5_SecondDrainEmpty ==
    TwoDrainsInARow =>
        /\ mbCall.err = Nil
        /\ mbCall.resp = Some([Messages |-> <<>>])

\* the first of the two drains returned messages
C5_Witness ==
    /\ TwoDrainsInARow
    /\ Len(mbPrev.resp[1].Messages) = MaxInbox
    /\ mbCall.req[1].EmailAddress = Alice

----------------------------------------------------------------------------
(* The TransferServer's claims, under Spec *)

\* the recipient of call c's message; for calls that passed the nil check
RecipientOf(c) == MsgOf(call[c]).RecipientEmail

\* how often msg is in the sequence inbox
RECURSIVE Count(_, _)
Count(inbox, msg) ==
    IF inbox = <<>> THEN 0
    ELSE (IF Head(inbox) = msg THEN 1 ELSE 0) + Count(Tail(inbox), msg)

\* how often call c's message is in the recipient's inbox at Mailbox addr
Copies(c, addr) ==
    Count(Inbox(Mailbox(addr), RecipientOf(c)), MsgOf(call[c]))

\* the attempts of call c that failed, as the call saw them
Failures(c) == Cardinality({j \in 1..Len(trace[c].seen) : trace[c].seen[j] = "fail"})

\* every attempt of call c before its last one failed
OnlyLastMaySucceed(c) ==
    \A j \in 1..(Len(trace[c].seen) - 1) : trace[c].seen[j] = "fail"

LastSeen(c) == trace[c].seen[Len(trace[c].seen)]

\* C6: when the Nameserver answers found=false, SendMail returns, without an
\* error, success=false and "Recipient '<recipient>' not found", having made
\* no delivery attempt and no backoff wait; and it returns so in no other case.
C6_NotFoundNoDelivery ==
    \A c \in Calls :
        /\ trace[c].lookup = "notfound" =>
              /\ call[c].pc = "NotFound"
              /\ call[c].err = Nil
              /\ call[c].resp =
                   Some([Success |-> FALSE,
                         Message |-> <<"Recipient '">> \o RecipientOf(c)
                                     \o <<"' not found">>])
              /\ trace[c].attempts = 0
              /\ trace[c].sleeps = <<>>
              /\ \A addr \in MailboxAddrs : Copies(c, addr) = 0
        /\ call[c].pc = "NotFound" => trace[c].lookup = "notfound"

\* a call for alice returned not-found before she was registered, and a call
\* for her made after that was delivered
C6_Witness ==
    /\ call[1].pc = "NotFound"
    /\ RecipientOf(1) = Alice
    /\ call[2].pc = "Success"
    /\ RecipientOf(2) = Alice

\* C7: a call whose first k attempts fail, k <= maxRetries, goes on to the
\* next attempt; and when that one succeeds the call has made k + 1 attempts
\* and returns, without an error, success=true and "Mail sent successfully",
\* with the message once in the recipient's inbox at the resolved Mailbox and
\* in no other (given that the Mailbox served none of the failed attempts).
C7_SuccessAfterKFailures ==
    \A c \in Calls :
        /\ ( /\ trace[c].attempts >= 1
             /\ Failures(c) = trace[c].attempts
             /\ Failures(c) <= maxRetries )
           => call[c].pc \in {"Delivering", "Retrying"}
        /\ ( /\ trace[c].attempts >= 1
             /\ LastSeen(c) = "ok" )
           => /\ call[c].pc = "Success"
              /\ Failures(c) <= maxRetries
              /\ trace[c].attempts = Failures(c) + 1
              /\ OnlyLastMaySucceed(c)
              /\ call[c].err = Nil
              /\ call[c].resp = Some([Success |-> TRUE,
                                      Message |-> <<"Mail sent successfully">>])
              /\ trace[c].lost = 0 =>
                    \A addr \in MailboxAddrs :
                        Copies(c, addr) =
                          IF addr = call[c].recipientMailboxAddr THEN 1 ELSE 0
        /\ call[c].pc = "Success" => trace[c].attempts >= 1 /\ LastSeen(c) = "ok"

\* the case k = maxRetries: three failed attempts, then a success
C7_Witness ==
    \E c \in Calls :
        /\ call[c].pc = "Success"
        /\ Failures(c) = maxRetries
        /\ trace[c].lost = 0
        /\ Copies(c, call[c].recipientMailboxAddr) = 1

\* s ends with t
EndsWith(s, t) ==
    /\ Len(t) <= Len(s)
    /\ SubSeq(s, Len(s) - Len(t) + 1, Len(s)) = t

\* the error text of the outcome of an attempt, as the transport or the
\* Mailbox service gave it
UnderlyingText(outcome) ==
    IF outcome.err # Nil
    THEN ErrorString(outcome.err[1])
    ELSE outcome.resp[1].Message

\* C8: a call of which maxRetries + 1 attempts failed makes no more, and
\* returns, without an error, success=false and "Mail delivery failed after
\* <maxRetries> retries: <last error>", the last error ending with the text
\* of the last attempt's failure; its message is in no inbox (given that the
\* Mailbox served none of the failed attempts); and it returns so in no
\* other case.
C8_ExhaustedAfterAllFail ==
    \A c \in Calls :
        /\ ( /\ Failures(c) = trace[c].attempts
             /\ trace[c].attempts >= maxRetries + 1 )
           => /\ call[c].pc = "Exhausted"
              /\ trace[c].attempts = maxRetries + 1
              /\ call[c].err = Nil
              /\ call[c].resp # Nil
              /\ ~call[c].resp[1].Success
              /\ call[c].lastErr # Nil
              /\ call[c].resp[1].Message =
                   <<"Mail delivery failed after ", ToString(maxRetries), " retries: ">>
                   \o call[c].lastErr[1]
              /\ EndsWith(call[c].resp[1].Message, UnderlyingText(trace[c].last[1]))
              /\ trace[c].lost = 0 => \A addr \in MailboxAddrs : Copies(c, addr) = 0
        /\ call[c].pc = "Exhausted" =>
              /\ Failures(c) = trace[c].attempts
              /\ trace[c].attempts = maxRetries + 1

\* a call gave up after attempts that a Mailbox refused and that did not
\* get through, while the other call delivered to the same recipient
C8_Witness ==
    /\ call[1].pc = "Exhausted"
    /\ trace[1].lost = 0
    /\ trace[1].last[1].resp = Some(Refusal)
    /\ Len(trace[1].sleeps) = maxRetries
    /\ call[2].pc = "Success"
    /\ RecipientOf(1) = Alice
    /\ RecipientOf(2) = Alice

\* the request of call c has no message, or one without a recipient
InvalidRequest(c) ==
    /\ call[c].pc # "Idle"
    /\ IF call[c].req[1].Message = Nil
       THEN TRUE
       ELSE call[c].req[1].Message[1].RecipientEmail = EmptyString

\* C9: SendMail with no message or an empty recipient returns an
\* InvalidArgument error and no response, and makes no lookup, no delivery
\* attempt and no backoff wait.
C9_ValidationError ==
    \A c \in Calls :
        InvalidRequest(c) =>
            /\ call[c].pc \in {"Validating", "Error"}
            /\ call[c].pc = "Error" =>
                  /\ call[c].resp = Nil
                  /\ call[c].err # Nil
                  /\ call[c].err[1].Code = "InvalidArgument"
            /\ trace[c] = NoTrace
            /\ call[c].req[1].Message # Nil =>
                  \A addr \in MailboxAddrs :
                      Count(Inbox(Mailbox(addr), EmptyString),
                            call[c].req[1].Message[1]) = 0

\* both kinds of invalid request were turned down, alice being registered
C9_Witness ==
    /\ call[1].pc = "Error"
    /\ call[1].req[1].Message = Nil
    /\ call[2].pc = "Error"
    /\ call[2].req[1].Message # Nil
    /\ call[2].err[1].Message = <<"recipient email cannot be empty">>
    /\ Alice \in DOMAIN mailboxes

\* C10: a call has made at most maxRetries + 1 delivery attempts, and none
\* after one of its attempts succeeded.
C10_AttemptsBounded ==
    \A c \in Calls :
        /\ trace[c].attempts <= maxRetries + 1
        /\ Len(trace[c].seen) = trace[c].attempts
        /\ OnlyLastMaySucceed(c)

\* one call used all its attempts in vain, the other needed one
C10_Witness ==
    /\ trace[1].attempts = maxRetries + 1
    /\ call[1].pc = "Exhausted"
    /\ trace[2].attempts = 1
    /\ call[2].pc = "Success"

----------------------------------------------------------------------------
(* The backoff schedule and the positions of a SendMail call, under Spec *)

Min(a, b) == IF a <= b THEN a ELSE b

RECURSIVE Pow2(_)
Pow2(n) == IF n = 0 THEN 1 ELSE 2 * Pow2(n - 1)

\* the schedule is also compared beyond the retries that maxRetries allows
MaxDoublings == 6

\* the value of backoff after n executions of lines 145-148
RECURSIVE BackoffAfter(_)
BackoffAfter(n) ==
    IF n = 0 THEN initialBackoff ELSE NextBackoff(BackoffAfter(n - 1))

\* C11: the wait after the i-th failed attempt of a call, i = 1..maxRetries,
\* is min(initialBackoff * 2^(i-1), maxBackoff); there is no wait after the
\* failed attempt number maxRetries + 1 and none after a successful attempt,
\* so a call has waited once per failed attempt among its first maxRetries.
\* The doubling and the cap of the code agree with the formula for further
\* doublings as well.
C11_BackoffSchedule ==
    /\ \A c \in Calls :
          /\ Len(trace[c].sleeps) = Min(Failures(c), maxRetries)
          /\ \A j \in 1..Len(trace[c].sleeps) :
                trace[c].sleeps[j] = Min(initialBackoff * Pow2(j - 1), maxBackoff)
          /\ call[c].pc = "Retrying" =>
                /\ LastSeen(c) = "fail"
                /\ call[c].backoff = trace[c].sleeps[Len(trace[c].sleeps)]
          /\ call[c].pc \in {"Success", "Exhausted"} =>
                Len(trace[c].sleeps) = Failures(c) - (IF call[c].pc = "Exhausted" THEN 1 ELSE 0)
    /\ \A n \in 0..MaxDoublings :
          BackoffAfter(n) = Min(initialBackoff * Pow2(n), maxBackoff)

\* one call waited 500, 1000 and 2000 ms and gave up without a fourth wait,
\* the other waited 500 ms once and then delivered
C11_Witness ==
    /\ call[1].pc = "Exhausted"
    /\ trace[1].sleeps = <<initialBackoff, 2 * initialBackoff, 4 * initialBackoff>>
    /\ call[2].pc = "Success"
    /\ trace[2].sleeps = <<initialBackoff>>

\* the positions of the state machine of the specification; establishing the
\* delivery channel ("Dialing") lies between Resolving and Delivering
Transitions ==
    {<<"Idle", "Validating">>,
     <<"Validating", "Resolving">>,
     <<"Resolving", "NotFound">>,
     <<"Resolving", "Dialing">>,
     <<"Dialing", "Delivering">>,
     <<"Delivering", "Success">>,
     <<"Delivering", "Retrying">>,
     <<"Retrying", "Delivering">>,
     <<"Delivering", "Exhausted">>}

\* the returns with an error: of the validation, of the lookup, of the dial
ErrorExits ==
    {<<"Validating", "Error">>, <<"Resolving", "Error">>, <<"Dialing", "Error">>}

\* every step of a call is a transition of the set graph; Retrying is entered
\* only after a failed attempt that is not attempt number maxRetries + 1
Follows(graph) ==
    \A c \in Calls :
        (call'[c] # call[c] \/ trace'[c] # trace[c]) =>
            /\ <<call[c].pc, call'[c].pc>> \in graph
            /\ call'[c].pc = "Retrying" =>
                  /\ trace'[c].attempts = trace[c].attempts + 1
                  /\ trace'[c].seen[trace'[c].attempts] = "fail"
                  /\ trace'[c].attempts <= maxRetries

\* C12, as the specification has it: every step of a SendMail call is a
\* transition of Validating -> Resolving -> (NotFound | Delivering) ->
\* (Success | Retrying -> Delivering)* -> Exhausted, and no other.
C12_OnlyGraphTransitions == [][Follows(Transitions)]_vars

\* C12, amended: every step of a SendMail call is a transition of that graph
\* or a return with an error from Validating (invalid request), from
\* Resolving (the lookup failed) or from establishing the delivery channel;
\* Retrying is entered only from a failed attempt that is not the last one
\* allowed; NotFound, Success, Exhausted and Error are terminal.
C12_StateMachine == [][Follows(Transitions \cup ErrorExits)]_vars

\* one call went through three waits to Exhausted, the other returned a
\* validation error
C12_Witness ==
    /\ call[1].pc = "Exhausted"
    /\ Len(trace[1].sleeps) = maxRetries
    /\ call[2].pc = "Error"
    /\ trace[2].lookups = 0
----------------------------------------------------------------------------
(* The Nameserver's validation and frame claims, under SpecNS *)

\* how many "@" the address has
AtSigns(a) == Cardinality({k \in 1..Len(a) : a[k] = At})

\* the last call was a Register with an empty address, an empty location or
\* an address that does not have exactly one "@"
LastRegisterInvalid ==
    /\ nsCall.op = "Register"
    /\ \/ nsCall.req[1].EmailAddress = EmptyString
       \/ nsCall.req[1].MailboxAddress = EmptyString
       \/ AtSigns(nsCall.req[1].EmailAddress) # 1

\* C19: a Register with an empty address, an empty location or an address
\* without exactly one "@" returns an InvalidArgument error and no response,
\* and the address map is as it was before the call.
C19_RegisterValidationError ==
    LastRegisterInvalid =>
        /\ nsCall.resp = Nil
        /\ nsCall.err # Nil
        /\ nsCall.err[1].Code = "InvalidArgument"
        /\ mailboxes = nsBefore

\* an address with two "@" in a managed domain was turned down with a
\* location given, by a Nameserver that holds an entry
C19_Witness ==
    /\ LastRegisterInvalid
    /\ nsCall.req[1].EmailAddress = TwoAtSigns
    /\ nsCall.req[1].MailboxAddress = EarthMailboxAddr
    /\ nsCall.err[1].Message = <<"invalid email address format: ">> \o TwoAtSigns
    /\ Alice \in DOMAIN mailboxes

\* C20: after a Lookup, of a known, an unknown or the empty address, the
\* address map and the managed domains are what they were before it.
C20_LookupNoSideEffects ==
    nsCall.op = "Lookup" =>
        /\ mailboxes = nsBefore
        /\ responsibleDomains = AuthorizedDomainSet

\* the Lookup of an unknown address in a managed domain answered
\* found=false while the Nameserver held another entry
C20_Witness ==
    /\ LastLookupOf(Bob)
    /\ nsCall.resp = Some([Found |-> FALSE, MailboxAddress |-> EmptyString])
    /\ DOMAIN mailboxes = {Alice}
----------------------------------------------------------------------------
(* The Mailbox's locking, under SpecMBLocked *)

\* C13: no two goroutines are inside ReceiveMail or GetMail for the same
\* recipient at the same time; so what a GetMail has read is still the inbox
\* when it clears it, and the messages the Mailbox accepted for a recipient
\* are, in order, those its GetMail calls returned followed by those still
\* in the inbox: none is lost and none is returned twice.
C13_EnqueueDrainExclusive ==
    /\ \A p, q \in MBProcs :
          (p # q /\ MBHolds(p) /\ MBHolds(q)) =>
              MBRecipientOf(p) # MBRecipientOf(q)
    /\ \A p \in MBProcs :
          mbThreads[p].pc = "read" =>
              mbThreads[p].messages =
                  Inbox(Mailbox(EarthMailboxAddr), mbThreads[p].req[1].EmailAddress)
    /\ \A a \in MBRecipients :
          ledger.accepted[a] =
              ledger.returned[a] \o Inbox(Mailbox(EarthMailboxAddr), a)

\* a ReceiveMail for alice holds the lock while a GetMail for her waits; an
\* earlier message of hers was returned by a GetMail before
C13_Witness ==
    \E p, q \in MBProcs :
        /\ mbThreads[p].pc = "locked"
        /\ mbThreads[p].op = "ReceiveMail"
        /\ MBRecipientOf(p) = Alice
        /\ mbThreads[q].pc = "waiting"
        /\ mbThreads[q].op = "GetMail"
        /\ MBRecipientOf(q) = Alice
        /\ Len(ledger.returned[Alice]) = 1

\* C14: the lock is per recipient: a call that waits for the lock gets it
\* when no goroutine is inside ReceiveMail or GetMail for the same recipient,
\* whatever goes on for other recipients.
C14_LockPerRecipient ==
    \A p \in MBProcs :
        ( /\ mbThreads[p].pc = "waiting"
          /\ \A q \in MBProcs \ {p} :
                MBHolds(q) => MBRecipientOf(q) # MBRecipientOf(p) )
        => CanLock(mbMu)

----------------------------------------------------------------------------
(* The Nameserver's locking, under SpecNSLocked *)

\* C15: lookups share the lock: a LookupMailbox that waits for s.mu gets it
\* when only LookupMailbox calls hold it; and while a RegisterMailbox holds
\* it no other call does.
C15_LookupsShareLock ==
    /\ \A p \in NSProcs :
          ( /\ nsThreads[p].pc = "waiting"
            /\ nsThreads[p].op = "Lookup"
            /\ \A q \in NSProcs \ {p} : NSHolds(q) => nsThreads[q].op = "Lookup" )
          => CanEnter("Lookup", nsMu)
    /\ \A p, q \in NSProcs :
          (p # q /\ NSHolds(p) /\ nsThreads[p].op = "Register") => ~NSHolds(q)

\* goroutine p has returned from a LookupMailbox of a non-empty address
Looked(p) ==
    /\ nsThreads[p].pc = "idle"
    /\ nsThreads[p].op = "Lookup"
    /\ nsThreads[p].req[1].EmailAddress # EmptyString

\* C16: a LookupMailbox answers, without an error, with a location the
\* address had at some moment between the arrival of the call and its
\* return: when a RegisterMailbox replaces L1 by L2 meanwhile, (true, L1) or
\* (true, L2); and found=false with an empty location only when the address
\* had no entry when the call arrived.
C16_RegisterAtomicForLookups ==
    \A p \in NSProcs :
        Looked(p) =>
            /\ nsThreads[p].err = Nil
            /\ nsThreads[p].resp # Nil
            /\ IF nsThreads[p].resp[1].Found
               THEN Some(nsThreads[p].resp[1].MailboxAddress) \in nsThreads[p].window
               ELSE /\ Nil \in nsThreads[p].window
                    /\ nsThreads[p].resp[1].MailboxAddress = EmptyString

\* a lookup of alice arrived when she was at one Mailbox, a registration
\* moved her to the other meanwhile, and the lookup answered
C16_Witness ==
    \E p \in NSProcs :
        /\ Looked(p)
        /\ nsThreads[p].window = {Some(EarthMailboxAddr), Some(SaturnMailboxAddr)}
        /\ nsThreads[p].resp[1].Found
        /\ \E q \in NSProcs \ {p} : nsThreads[q].pc = "waiting"

----------------------------------------------------------------------------
(* Concurrent SendMail calls and cancellation *)

Terminal == {"NotFound", "Success", "Exhausted", "Error"}

\* C17 (under SpecProgress): while call 1 waits in a backoff, however long,
\* call 2, once made, goes on to return.
C17_BackoffDoesNotBlockOthers ==
    (call[1].pc = "Retrying" /\ call[2].pc \notin Terminal \cup {"Idle"})
        ~> (call[2].pc \in Terminal)

\* call 1 is in its first backoff and call 2, made after it, has gone
\* through all its attempts and waits
C17_Witness ==
    /\ call[1].pc = "Retrying"
    /\ Len(trace[1].sleeps) = 1
    /\ call[2].pc = "Exhausted"
    /\ Len(trace[2].sleeps) = maxRetries

\* C18 (under SpecCtx): a call whose context was cancelled while it was in
\* the retry loop ends at the next backoff boundary: when it wakes up from a
\* backoff with the context cancelled it starts no delivery attempt.
C18_AbortAtBackoffBoundary ==
    \A c \in Calls :
        /\ ctx[c] = "passed" => call[c].pc \in Terminal
        /\ ctx[c] # "late"
----------------------------------------------------------------------------
(* The Mailbox's validation and frame claims, under SpecMB *)

\* the last call was a ReceiveMail without a message or without a recipient
LastReceiveInvalid ==
    /\ mbCall.op = "ReceiveMail"
    /\ IF mbCall.req[1].Message = Nil
       THEN TRUE
       ELSE mbCall.req[1].Message[1].RecipientEmail = EmptyString

\* the last call was a ReceiveMail with a message that names a recipient
LastReceiveValid ==
    /\ mbCall.op = "ReceiveMail"
    /\ ~LastReceiveInvalid

\* C21: a ReceiveMail without a message or with an empty recipient returns
\* an InvalidArgument error and no response and leaves every inbox as it
\* was; any other ReceiveMail returns success and makes the recipient's
\* inbox the one before, or the empty one if there was none, followed by
\* that one message, and leaves every other inbox as it was.
C21_ReceiveAllOrNothing ==
    /\ LastReceiveInvalid =>
          /\ mbCall.resp = Nil
          /\ mbCall.err # Nil
          /\ mbCall.err[1].Code = "InvalidArgument"
          /\ userInboxes = mbBefore
    /\ LastReceiveValid =>
          LET addr == mbCall.at[1]
              msg  == mbCall.req[1].Message[1]
              r    == msg.RecipientEmail
              old  == IF r \in DOMAIN mbBefore[addr] THEN mbBefore[addr][r] ELSE <<>>
          IN  /\ mbCall.err = Nil
              /\ mbCall.resp = Some([Success |-> TRUE,
                                     Message |-> <<"Mail received successfully">>])
              /\ DOMAIN userInboxes[addr] = DOMAIN mbBefore[addr] \cup {r}
              /\ userInboxes[addr][r] = old \o <<msg>>
              /\ \A a \in DOMAIN mbBefore[addr] \ {r} :
                    userInboxes[addr][a] = mbBefore[addr][a]
              /\ \A other \in MailboxAddrs \ {addr} :
                    userInboxes[other] = mbBefore[other]

\* a message for charlie created his inbox next to alice's, which held a
\* message already
C21_Witness ==
    /\ LastReceiveValid
    /\ mbCall.req[1].Message[1].RecipientEmail = Charlie
    /\ Charlie \notin DOMAIN mbBefore[EarthMailboxAddr]
    /\ Len(Inbox(Mailbox(EarthMailboxAddr), Alice)) = 1
    /\ mbPrev.op = "ReceiveMail"
    /\ mbPrev.err # Nil

\* the last call was a GetMail of an address that had no inbox
LastGetWithoutInbox ==
    /\ mbCall.op = "GetMail"
    /\ mbCall.req[1].EmailAddress # EmptyString
    /\ mbCall.req[1].EmailAddress \notin DOMAIN mbBefore[mbCall.at[1]]

\* C22: a GetMail of an address that has no inbox returns, without an error,
\* the empty sequence; a GetMail of the empty address returns an
\* InvalidArgument error and no response; both leave the inboxes as they were.
C22_GetMailWithoutInbox ==
    /\ LastGetWithoutInbox =>
          /\ mbCall.err = Nil
          /\ mbCall.resp = Some([Messages |-> <<>>])
          /\ userInboxes = mbBefore
    /\ LastGetMailOf(EmptyString) =>
          /\ mbCall.resp = Nil
          /\ mbCall.err # Nil
          /\ mbCall.err[1].Code = "InvalidArgument"
          /\ userInboxes = mbBefore

\* bob, who never got mail here, asked for his, while alice's inbox was full
C22_Witness ==
    /\ LastGetWithoutInbox
    /\ mbCall.req[1].EmailAddress = Bob
    /\ Len(Inbox(Mailbox(EarthMailboxAddr), Alice)) = MaxInbox
    /\ mbPrev.op = "GetMail"
    /\ mbPrev.err # Nil
----------------------------------------------------------------------------
(* The lookup error, the last error and the two kinds of failed attempt,
   under Spec *)

\* s starts with t
StartsWith(s, t) ==
    /\ Len(t) <= Len(s)
    /\ SubSeq(s, 1, Len(t)) = t

\* C23: when the LookupMailbox call of a SendMail call fails, SendMail
\* returns an Internal error and no response, having made that one lookup
\* only, no delivery attempt and no backoff wait; no inbox has its message.
C23_LookupErrorIsInternal ==
    \A c \in Calls :
        trace[c].lookup = "error" =>
            /\ call[c].pc = "Error"
            /\ call[c].resp = Nil
            /\ call[c].err # Nil
            /\ call[c].err[1].Code = "Internal"
            /\ StartsWith(call[c].err[1].Message,
                          <<"failed to lookup recipient mailbox: ">>)
            /\ trace[c].lookups = 1
            /\ trace[c].attempts = 0
            /\ trace[c].sleeps = <<>>
            /\ \A addr \in MailboxAddrs : Copies(c, addr) = 0

\* the lookup of a call for alice failed although she was registered, and
\* the next call for her was delivered
C23_Witness ==
    /\ trace[1].lookup = "error"
    /\ RecipientOf(1) = Alice
    /\ Alice \in DOMAIN mailboxes
    /\ call[2].pc = "Success"
    /\ RecipientOf(2) = Alice

\* the text SendMail makes of the outcome of an attempt of call c that failed
FailureText(c, outcome) ==
    IF outcome.err # Nil
    THEN <<"error sending mail to mailbox '">> \o call[c].recipientMailboxAddr
         \o <<"': ">> \o ErrorString(outcome.err[1])
    ELSE <<"mail delivery to '">> \o RecipientOf(c) \o <<"' failed: ">>
         \o outcome.resp[1].Message

\* C24: the message of a call that returned after all its attempts failed is
\* "Mail delivery failed after <n> retries: ", n being maxRetries and one
\* less than the attempts made, followed by the text of the failure of the
\* last, the (maxRetries + 1)-th, attempt.
C24_LastErrorOfFinalAttempt ==
    \A c \in Calls :
        call[c].pc = "Exhausted" =>
            /\ trace[c].attempts = maxRetries + 1
            /\ call[c].resp[1].Message =
                 <<"Mail delivery failed after ", ToString(trace[c].attempts - 1),
                   " retries: ">>
                 \o FailureText(c, trace[c].last[1])

\* the last attempt of a call timed out after earlier ones had failed
\* otherwise, and the last attempt of the other call was refused
C24_Witness ==
    /\ call[1].pc = "Exhausted"
    /\ trace[1].last[1].err = Some(DeadlineExceeded)
    /\ trace[1].lost = 1
    /\ call[2].pc = "Exhausted"
    /\ trace[2].last[1].resp = Some(Refusal)

\* call k without the text of its last error
WithoutText(k) ==
    [k EXCEPT !.lastErr = Nil,
              !.resp = IF @ = Nil THEN Nil ELSE Some([Success |-> @[1].Success])]

\* C25: an attempt that returns an error and one that returns a response
\* without success are followed by the same: wherever a call is about to
\* make an attempt, either outcome leaves it at the same position with the
\* same locals but for the text of the last error; and two calls whose
\* attempts so far succeeded and failed alike have slept the same backoffs,
\* have both returned or both not, and have returned the same success flag.
C25_FailuresRetriedAlike ==
    /\ \A c \in Calls :
          call[c].pc = "Delivering" =>
             WithoutText(Attempt(call[c], Nil, Some(Unavailable)))
               = WithoutText(Attempt(call[c], Some(Refusal), Nil))
    /\ \A c, d \in Calls :
          (trace[c].seen = trace[d].seen /\ trace[c].seen # <<>>) =>
             /\ trace[c].sleeps = trace[d].sleeps
             /\ call[c].pc \in {"Success", "Exhausted"}
                  <=> call[d].pc \in {"Success", "Exhausted"}
             /\ call[c].pc \in {"Success", "Exhausted"} =>
                  /\ call[c].pc = call[d].pc
                  /\ call[c].resp[1].Success = call[d].resp[1].Success

\* one call gave up after an error, the other after a refusal, each after
\* the same three sleeps
C25_Witness ==
    /\ call[1].pc = "Exhausted"
    /\ trace[1].last[1].err = Some(Unavailable)
    /\ call[2].pc = "Exhausted"
    /\ trace[2].last[1].resp = Some(Refusal)
    /\ call[1].lastErr # call[2].lastErr
    /\ trace[1].sleeps = trace[2].sleeps
    /\ Len(trace[1].sleeps) = maxRetries

\* the inbox of address a in the inbox maps boxes, at the Mailbox at addr
InboxAt(boxes, addr, a) ==
    IF a \in DOMAIN boxes[addr] THEN boxes[addr][a] ELSE <<>>

\* SendMail call c has returned
HasReturned(c) == call[c].resp # Nil \/ call[c].err # Nil

\* the Mailbox at addr appends, in this step, the message of an attempt of
\* call c whose deadline had passed before
LateAppendOf(c, addr) ==
    \E r \in BagToSet(timedOut) :
        /\ r.call = c
        /\ r.addr = addr
        /\ ~r.stored
        /\ timedOut' = (timedOut (-) SetToBag({r})) (+) SetToBag({[r EXCEPT !.stored = TRUE]})

\* C26: once a SendMail call has returned, it makes no lookup, no delivery
\* attempt and no backoff wait any more; the number of copies of its message
\* in an inbox grows after that only by the Mailbox appending the message of
\* an attempt the call made before it returned, whose deadline had passed.
C26_NothingAfterReturn ==
    [][\A c \in Calls :
          HasReturned(c) =>
             /\ call'[c] = call[c]
             /\ trace'[c] = trace[c]
             /\ call[c].req[1].Message # Nil =>
                   \A addr \in MailboxAddrs :
                       LET after  == Count(InboxAt(userInboxes', addr, RecipientOf(c)),
                                           MsgOf(call[c]))
                           before == Count(InboxAt(userInboxes, addr, RecipientOf(c)),
                                           MsgOf(call[c]))
                       IN  IF LateAppendOf(c, addr)
                           THEN after = before + 1
                           ELSE after = before]_vars

\* call 1 had returned success, at its second attempt, when call 2 was made;
\* call 2 was delivered; and after that the Mailbox appended the message of
\* the first attempt of call 1, whose deadline had passed
C26_Witness ==
    /\ call[1].pc = "Success"
    /\ 1 \in history.succeededBefore[2]
    /\ trace[1].attempts = 2
    /\ trace[1].lost = 1
    /\ call[2].pc = "Success"
    /\ InboxAt(userInboxes, EarthMailboxAddr, Alice)
          = <<MsgOf(call[1]), MsgOf(call[2]), MsgOf(call[1])>>
----------------------------------------------------------------------------
(* What the Mailboxes hold after SendMail calls, under Spec, and the end of
   every call, under SpecTerminates *)

\* the domain of the addresses of the users of a Mailbox made for the given
\* domain: main.go starts the Mailbox "earth" for earth.com and the Mailbox
\* "saturn" for saturn.com
AddressDomainOf(domain) ==
    IF domain = <<"earth">> THEN <<"earth.com">> ELSE <<"saturn.com">>

\* C27: every address that has an inbox in a Mailbox is an address of the
\* domain the Mailbox was made for.
C27_InboxesOfOwnDomainOnly ==
    \A addr \in MailboxAddrs :
        \A a \in DOMAIN userInboxes[addr] :
            /\ WellFormed(a)
            /\ DomainOf(a) = AddressDomainOf(Domain[addr])

\* call c was made with a message that names a recipient
ValidRequest(c) == call[c].pc # "Idle" /\ ~InvalidRequest(c)

\* C28: a SendMail call makes at most one lookup, and exactly one once it is
\* past it with a message that names a recipient; every delivery attempt it
\* makes goes to the location that lookup returned, whatever the Nameserver
\* has for the recipient by then, and its message is in no inbox of a
\* Mailbox elsewhere.
C28_OneLookupOneDestination ==
    \A c \in Calls :
        /\ trace[c].lookups <= 1
        /\ Len(trace[c].resolved) = trace[c].lookups
        /\ (ValidRequest(c) /\ call[c].pc \notin {"Validating", "Resolving"})
              => trace[c].lookups = 1
        /\ Len(trace[c].dests) = trace[c].attempts
        /\ trace[c].attempts > 0 =>
              /\ trace[c].lookup = "found"
              /\ \A j \in 1..Len(trace[c].dests) :
                    trace[c].dests[j] = trace[c].resolved[1]
              /\ \A addr \in MailboxAddrs \ {trace[c].resolved[1]} :
                    Copies(c, addr) = 0

\* call 1 delivered to alice at the earth Mailbox at its third attempt or
\* later, and the Nameserver has her at the saturn Mailbox, where call 2
\* delivered
C28_Witness ==
    /\ call[1].pc = "Success"
    /\ RecipientOf(1) = Alice
    /\ trace[1].attempts >= 3
    /\ trace[1].resolved = <<EarthMailboxAddr>>
    /\ Copies(1, EarthMailboxAddr) = 1
    /\ Alice \in DOMAIN mailboxes
    /\ mailboxes[Alice] = SaturnMailboxAddr
    /\ call[2].pc = "Success"
    /\ trace[2].resolved = <<SaturnMailboxAddr>>
    /\ Copies(2, SaturnMailboxAddr) = 1

\* C29: the message of a call that returned success is once in the
\* recipient's inbox at the resolved Mailbox, and the message of a call that
\* returned success=false or an error is in no inbox.
C29_ResultAgreesWithInbox ==
    \A c \in Calls :
        /\ call[c].pc = "Success" =>
              Copies(c, call[c].recipientMailboxAddr) = 1
        /\ (ValidRequest(c) /\ call[c].pc \in {"NotFound", "Exhausted", "Error"}) =>
              \A addr \in MailboxAddrs : Copies(c, addr) = 0

\* C30 (under SpecTerminates): every SendMail call that was made returns:
\* not-found, success, exhausted or an error.
C30_EveryCallTerminates ==
    \A c \in Calls : (call[c].pc # "Idle") ~> (call[c].pc \in Terminal)

\* one call went through all its attempts and sleeps, the other ended at
\* the lookup
C30_Witness ==
    /\ call[1].pc = "Exhausted"
    /\ Len(trace[1].sleeps) = maxRetries
    /\ trace[1].lost = 1
    /\ call[2].pc = "Error"
    /\ trace[2].lookup = "error"
----------------------------------------------------------------------------
(* The Mailbox's frame and the order of the Nameserver's checks *)

\* the recipient the last call of a Mailbox was for: the one of the message
\* of a ReceiveMail, the address of a GetMail; the empty address if none
LastTarget ==
    IF mbCall.op = "GetMail" THEN mbCall.req[1].EmailAddress
    ELSE IF mbCall.req[1].Message = Nil THEN EmptyString
    ELSE mbCall.req[1].Message[1].RecipientEmail

\* C32 (under SpecMB): a ReceiveMail for recipient R and a GetMail of address
\* A leave the inbox of every other recipient, and every inbox of the other
\* Mailbox, as it was: no inbox but R's or A's is made, dropped or changed.
C32_OnlyTargetInboxChanges ==
    mbCall.op \in {"ReceiveMail", "GetMail"} =>
        \A addr \in MailboxAddrs :
            \A a \in (DOMAIN mbBefore[addr]) \cup (DOMAIN userInboxes[addr]) :
                (addr # mbCall.at[1] \/ a # LastTarget) =>
                    /\ a \in DOMAIN mbBefore[addr]
                    /\ a \in DOMAIN userInboxes[addr]
                    /\ userInboxes[addr][a] = mbBefore[addr][a]

\* alice's full inbox was drained while charlie's held a message and holds
\* it still, after a message for charlie had been added next to alice's
C32_Witness ==
    /\ LastGetMailOf(Alice)
    /\ Len(mbCall.resp[1].Messages) = MaxInbox
    /\ Len(Inbox(Mailbox(EarthMailboxAddr), Charlie)) = 1
    /\ Inbox(Mailbox(EarthMailboxAddr), Alice) = <<>>
    /\ mbPrev.op = "ReceiveMail"
    /\ mbPrev.resp # Nil
    /\ mbPrev.req[1].Message[1].RecipientEmail = Charlie

\* the last call was a Register of an address of a domain the Nameserver
\* does not manage, or of a non-empty address without exactly one "@", that
\* came without a location
LastRegisterUnmanagedNoLocation ==
    /\ nsCall.op = "Register"
    /\ nsCall.req[1].MailboxAddress = EmptyString
    /\ nsCall.req[1].EmailAddress # EmptyString
    /\ IF WellFormed(nsCall.req[1].EmailAddress)
       THEN DomainOf(nsCall.req[1].EmailAddress) \notin AuthorizedDomainSet
       ELSE TRUE

\* the last call was a Register of a non-empty address without exactly one
\* "@", whose part after the first "@" is no managed domain, with a location
LastRegisterMalformedUnmanaged ==
    /\ nsCall.op = "Register"
    /\ nsCall.req[1].MailboxAddress # EmptyString
    /\ nsCall.req[1].EmailAddress # EmptyString
    /\ ~WellFormed(nsCall.req[1].EmailAddress)

\* C38 (under SpecNS): RegisterMailbox checks for emptiness, then for the
\* "@" format, and only then whether it manages the domain: a Register
\* without a location of an address in an unmanaged domain returns the
\* InvalidArgument error of the emptiness check, and a Register of a
\* malformed address the one of the format check, never the success=false
\* response of the domain check.
C38_ValidationBeforeDomain ==
    /\ LastRegisterUnmanagedNoLocation =>
          /\ nsCall.resp = Nil
          /\ nsCall.err = Some(StatusErrorf("InvalidArgument",
                 <<"email address and mailbox address cannot be empty">>))
    /\ LastRegisterMalformedUnmanaged =>
          /\ nsCall.resp = Nil
          /\ nsCall.err = Some(StatusErrorf("InvalidArgument",
                 <<"invalid email address format: ">> \o nsCall.req[1].EmailAddress))

\* a Register of diana@mars.com without a location was turned down by a
\* Nameserver that holds an entry for alice
C38_Witness ==
    /\ LastRegisterUnmanagedNoLocation
    /\ nsCall.req[1].EmailAddress = Diana
    /\ nsCall.err # Nil
    /\ mailboxes = nsBefore
    /\ Diana \notin DOMAIN mailboxes
    /\ Alice \in DOMAIN mailboxes
----------------------------------------------------------------------------
(* The dial error, the Mailbox's answers and malformed recipients, under Spec *)

\* C33: when the connection to the resolved Mailbox cannot be made, SendMail
\* returns an Unavailable error and no response, at once: after the one
\* lookup that found the recipient it makes no delivery attempt and no
\* backoff wait, and its message is in no inbox.
C33_DialErrorIsUnavailable ==
    \A c \in Calls :
        /\ trace[c].dial = "error" =>
              /\ call[c].pc = "Error"
              /\ call[c].resp = Nil
              /\ call[c].err # Nil
              /\ call[c].err[1].Code = "Unavailable"
              /\ StartsWith(call[c].err[1].Message,
                            <<"failed to connect to recipient mailbox: ">>)
              /\ trace[c].lookup = "found"
              /\ trace[c].lookups = 1
              /\ trace[c].attempts = 0
              /\ trace[c].sleeps = <<>>
              /\ \A addr \in MailboxAddrs : Copies(c, addr) = 0
        /\ (call[c].err # Nil /\ call[c].err[1].Code = "Unavailable") =>
              trace[c].dial = "error"

\* the dial of a call for alice failed, and the next call for her got
\* through at its second attempt
C33_Witness ==
    /\ trace[1].dial = "error"
    /\ RecipientOf(1) = Alice
    /\ call[2].pc = "Success"
    /\ RecipientOf(2) = Alice
    /\ trace[2].dial = "ok"
    /\ trace[2].attempts = 2

\* the outcome of ReceiveMail is the error of one of its checks and no
\* response, or no error and a response with success=true
ErrorOrSuccess(r) ==
    IF r.err # Nil
    THEN r.resp = Nil /\ r.err[1].Code = "InvalidArgument"
    ELSE r.resp # Nil /\ r.resp[1].Success

\* C34: the Mailbox's ReceiveMail, in whatever state a Mailbox is, returns
\* either an InvalidArgument error or a response with success=true, never
\* one with success=false; for the message of a call that is about to make
\* a delivery attempt it returns success=true; so a call none of whose
\* attempts timed out and whose message is in an inbox has returned success,
\* or is waiting for the response of the attempt that stored it.
C34_MailboxNeverRefuses ==
    /\ \A addr \in MailboxAddrs, c \in Calls :
          \A req \in SendRequests(c) :
              ErrorOrSuccess(ReceiveMail(Mailbox(addr), req))
    /\ \A c \in Calls :
          call[c].pc = "Delivering" =>
             \A addr \in MailboxAddrs :
                 LET r == ReceiveMail(Mailbox(addr), [Message |-> Some(MsgOf(call[c]))])
                 IN  r.err = Nil /\ r.resp # Nil /\ r.resp[1].Success
    /\ \A c \in Calls :
          (ValidRequest(c) /\ trace[c].lost = 0
             /\ \E addr \in MailboxAddrs : Copies(c, addr) > 0)
          => \/ call[c].pc = "Success"
             \/ call[c].pc = "Delivering" /\ Answered(c)

\* call 1 was delivered to alice; call 2, for her too, is about to make its
\* second attempt at the Mailbox that holds the message of call 1, its
\* first attempt having failed with a transport error
C34_Witness ==
    /\ call[1].pc = "Success"
    /\ Copies(1, EarthMailboxAddr) = 1
    /\ call[2].pc = "Delivering"
    /\ RecipientOf(2) = Alice
    /\ call[2].recipientMailboxAddr = EarthMailboxAddr
    /\ trace[2].attempts = 1
    /\ trace[2].last[1].err = Some(Unavailable)

\* C35: a recipient address that is not empty and has no "@" is turned down
\* by no check: LookupMailbox answers it, without an error, found=false, and
\* a SendMail call for it returns, without an error, the not-found response
\* success=false, unless its lookup did not get through to the Nameserver;
\* it never returns an InvalidArgument error.
C35_MalformedIsNotFound ==
    \A c \in Calls :
        (ValidRequest(c) /\ AtSigns(RecipientOf(c)) = 0) =>
            /\ LookupMailbox(Nameserver, [EmailAddress |-> RecipientOf(c)])
                 = [s    |-> Nameserver,
                    resp |-> Some([Found |-> FALSE, MailboxAddress |-> EmptyString]),
                    err  |-> Nil]
            /\ call[c].pc \in {"Validating", "Resolving", "NotFound", "Error"}
            /\ call[c].pc = "Error" =>
                  /\ trace[c].lookup = "error"
                  /\ call[c].err[1].Code = "Internal"
            /\ call[c].pc = "NotFound" =>
                  /\ call[c].err = Nil
                  /\ call[c].resp =
                       Some([Success |-> FALSE,
                             Message |-> <<"Recipient '">> \o RecipientOf(c)
                                         \o <<"' not found">>])
                  /\ trace[c].attempts = 0

\* a call for alice.earth.com returned not-found while alice@earth.com was
\* registered, and the next call, for alice@earth.com, was delivered
C35_Witness ==
    /\ call[1].pc = "NotFound"
    /\ RecipientOf(1) = NoAtSign
    /\ Alice \in DOMAIN mailboxes
    /\ call[2].pc = "Success"
----------------------------------------------------------------------------
(* What GetMail returns after SendMail calls, under SpecDrain *)

\* the two messages are equal field for field
SameFields(m, n) ==
    /\ m.SenderEmail = n.SenderEmail
    /\ m.RecipientEmail = n.RecipientEmail
    /\ m.Subject = n.Subject
    /\ m.Body = n.Body
    /\ m.Timestamp = n.Timestamp

\* message m is, field for field, the message a SendMail call was made with
\* for recipient a
Submitted(m, a) ==
    \E c \in Calls :
        /\ ValidRequest(c)
        /\ RecipientOf(c) = a
        /\ SameFields(m, MsgOf(call[c]))

\* C31: every message that GetMail returns for an address, and every message
\* in an inbox, is field for field (sender, recipient, subject, body,
\* timestamp) the message that a SendMail call was made with for that
\* address, however many attempts the call needed.
C31_MessagesUnchangedInTransit ==
    /\ (mbCall.op = "GetMail" /\ mbCall.resp # Nil) =>
          \A j \in 1..Len(mbCall.resp[1].Messages) :
              Submitted(mbCall.resp[1].Messages[j], mbCall.req[1].EmailAddress)
    /\ \A addr \in MailboxAddrs :
          \A a \in DOMAIN userInboxes[addr] :
              \A j \in 1..Len(userInboxes[addr][a]) :
                  Submitted(userInboxes[addr][a][j], a)

\* alice fetched three messages from the earth Mailbox: the one of call 1,
\* which needed more than one attempt, and the one of call 2 twice, the
\* response to an attempt of call 2 having been lost
C31_Witness ==
    /\ LastGetMailOf(Alice)
    /\ mbCall.at = Some(EarthMailboxAddr)
    /\ Len(mbCall.resp[1].Messages) = 3
    /\ mbCall.resp[1].Messages[1] = MsgOf(call[1])
    /\ mbCall.resp[1].Messages[3] = MsgOf(call[2])
    /\ trace[2].lost = 1
    /\ trace[1].attempts >= 2

\* the positions of message m in the sequence msgs
Positions(msgs, m) == {j \in 1..Len(msgs) : msgs[j] = m}

\* call c had returned success when call d, for the same recipient, was
\* made, and d returned success too
SucceededInTurn(c, d) ==
    /\ c \in history.succeededBefore[d]
    /\ call[d].pc = "Success"
    /\ RecipientOf(c) = RecipientOf(d)

\* in the sequence msgs, every copy of message n has a copy of message m
\* before it
Precedes(msgs, m, n) ==
    \A j \in Positions(msgs, n) : \E i \in Positions(msgs, m) : i < j

\* C36: when a SendMail call for a recipient had returned success before a
\* second one for the same recipient was made, the second returned success
\* too and both were resolved to the same Mailbox, then, as long as no
\* GetMail was served, the recipient's inbox there holds both messages with
\* the message of the first before the message of the second, and in what
\* the first GetMail returns for the recipient the message of the second has
\* the message of the first before it.
C36_RealTimeOrder ==
    \A c, d \in Calls :
        ( /\ SucceededInTurn(c, d)
          /\ call[c].recipientMailboxAddr = call[d].recipientMailboxAddr ) =>
            /\ Drains = 0 =>
                  LET box == InboxAt(userInboxes, call[c].recipientMailboxAddr,
                                     RecipientOf(c))
                  IN  /\ Positions(box, MsgOf(call[c])) # {}
                      /\ Positions(box, MsgOf(call[d])) # {}
                      /\ Precedes(box, MsgOf(call[c]), MsgOf(call[d]))
            /\ ( /\ LastGetMailOf(RecipientOf(c))
                 /\ mbPrev.op # "GetMail"
                 /\ mbCall.at = Some(call[c].recipientMailboxAddr)
                 /\ mbCall.resp # Nil ) =>
                  Precedes(mbCall.resp[1].Messages, MsgOf(call[c]), MsgOf(call[d]))

\* call 2 was made after call 1 had returned success; the deadline of the
\* first attempt of call 1 had passed before the Mailbox appended its message,
\* which it did after the message of call 2; and alice fetched the message
\* of call 1, the message of call 2 and the message of call 1 again
C36_Witness ==
    /\ SucceededInTurn(1, 2)
    /\ LastGetMailOf(Alice)
    /\ mbPrev.op # "GetMail"
    /\ mbCall.resp[1].Messages = <<MsgOf(call[1]), MsgOf(call[2]), MsgOf(call[1])>>
    /\ trace[1].lost = 1
    /\ trace[1].attempts = 2
----------------------------------------------------------------------------
(* The shutdown of the TransferServer, under SpecShutdown *)

\* C37: once s.GracefulStop() has returned, every SendMail call that was
\* accepted has returned, and no call is accepted after the signal; the
\* connection to the Nameserver is closed only after that, so that no call
\* has its lookup ahead of it when the connection is closed; and a call that
\* was in flight when the signal came goes on as it would have.
C37_GracefulShutdown ==
    /\ tsMain \in {"stopped", "closed"} =>
          \A c \in Calls : call[c].pc \in Terminal \cup {"Idle"}
    /\ tsMain = "closed" =>
          \A c \in Calls : call[c].pc \notin {"Validating", "Resolving"}
    /\ tsMain = "serving" => history.lookupAhead = {}
    /\ \A c \in history.lookupAhead :
          /\ call[c].pc # "Idle"
          /\ (call[c].pc \in Terminal /\ ValidRequest(c)) => trace[c].lookups = 1

\* the signal came while call 1 had its lookup ahead of it; the call made
\* the lookup and was delivered at its second attempt or later, then the
\* server stopped and the connection was closed; call 2 was never accepted
C37_Witness ==
    /\ tsMain = "closed"
    /\ 1 \in history.lookupAhead
    /\ call[1].pc = "Success"
    /\ trace[1].lookup = "found"
    /\ trace[1].attempts >= 2
    /\ call[2].pc = "Idle"

====
